---------------------------- MODULE Spec2Model ----------------------------
(***************************************************************************)
(* Model of the node-level diff/changelog engine of the Algerknown RAG     *)
(* backend (src/rag-backend/diff_engine.py): the flattener, the diff       *)
(* algorithm, the JSONL changelog, the per-source version cache and the    *)
(* orchestrator diff_and_log; and of the proposal writer that appends to   *)
(* the lists of a summary document (src/rag-backend/writer.py).            *)
(*                                                                         *)
(* Python strings are sequences of one-character strings, compared by code *)
(* point as Python compares them.  Python values are records               *)
(*   [t: type name, n: numeric value, s: text, c: children]                *)
(* so that values of different Python types can live in one set.           *)
(***************************************************************************)
EXTENDS Integers, Sequences, FiniteSets, TLC

VARIABLES
    \* ---- the files the engine owns
    logFile,      \* changelog.jsonl: the sequence of its lines
    cacheDir,     \* the cache directory: file name -> file content
    clock,        \* the wall clock read by datetime.now(), as a tick count
    \* ---- the most recent call and what it returned
    steps,        \* number of mutating calls made so far
    call,         \* the most recent mutating call, with its arguments and result
    ret,          \* the most recent read call and its result
    appended,     \* history: the records handed to Changelog.append so far, in order
    saves,        \* history: the save_current calls so far, in order
    \* ---- one isolated call of compute_diff
    pc,           \* "idle" | "start" | "done"
    old_data, new_data, source_file, timestamp, now,   \* its arguments and the clock it reads
    changes,      \* the list it returned
    \* ---- one isolated call of _parse_path
    segments,     \* the segment sequence a path was rendered from
    path_str,     \* the path string given to _parse_path
    parsed,       \* what the call returned or raised
    \* ---- the file the proposal writer owns
    summary       \* the summary document apply_update reads and rewrites

vars == <<logFile, cacheDir, clock, steps, call, ret, appended, saves,
          pc, old_data, new_data, source_file, timestamp, now, changes,
          segments, path_str, parsed, summary>>

-----------------------------------------------------------------------------
(* Strings *)

\* The code point of each character the model uses (Python compares str by code point).
Ord(ch) ==
    CASE ch = "." -> 46  [] ch = "/" -> 47  [] ch = "-" -> 45  [] ch = ":" -> 58
      [] ch = "0" -> 48  [] ch = "1" -> 49  [] ch = "2" -> 50  [] ch = "3" -> 51
      [] ch = "4" -> 52  [] ch = "5" -> 53  [] ch = "6" -> 54  [] ch = "7" -> 55
      [] ch = "8" -> 56  [] ch = "9" -> 57
      [] ch = "T" -> 84  [] ch = "Z" -> 90  [] ch = "[" -> 91  [] ch = "\\" -> 92
      [] ch = "]" -> 93  [] ch = "_" -> 95
      [] ch = "a" -> 97  [] ch = "b" -> 98  [] ch = "c" -> 99  [] ch = "d" -> 100
      [] ch = "e" -> 101 [] ch = "x" -> 120 [] ch = "y" -> 121

\* Python's a < b on str: lexicographic by code point, a proper prefix is smaller.
StrLess(a, b) ==
    \E i \in 1..(Len(b)) :
        /\ \A j \in 1..(i - 1) : j <= Len(a) /\ a[j] = b[j]
        /\ i - 1 <= Len(a)
        /\ \/ i = Len(a) + 1
           \/ i <= Len(a) /\ Ord(a[i]) < Ord(b[i])

StrLessEq(a, b) == a = b \/ StrLess(a, b)

\* One decimal digit as a character.
DigitChar(d) == <<"0", "1", "2", "3", "4", "5", "6", "7", "8", "9">>[d + 1]

\* Python's str(n) for a non-negative int.
RECURSIVE IntToStr(_)
IntToStr(n) == IF n < 10 THEN <<DigitChar(n)>> ELSE IntToStr(n \div 10) \o <<DigitChar(n % 10)>>

\* Python's "%0<w>d" % n : zero-padded to width w.
RECURSIVE ZeroPad(_, _)
ZeroPad(n, w) == IF w <= 1 THEN IntToStr(n) ELSE
                 IF Len(IntToStr(n)) >= w THEN IntToStr(n) ELSE <<"0">> \o ZeroPad(n, w - 1)

\* The concatenation of a sequence of sequences.
RECURSIVE Concat(_)
Concat(ss) == IF ss = <<>> THEN <<>> ELSE Head(ss) \o Concat(Tail(ss))

-----------------------------------------------------------------------------
(* Python values *)

Entry(key, value) == [k |-> key, e |-> value]

PyNone       == [t |-> "NoneType", n |-> 0, s |-> <<>>, c |-> <<>>]
PyBool(b)    == [t |-> "bool",  n |-> IF b THEN 1 ELSE 0, s |-> <<>>, c |-> <<>>]
PyInt(i)     == [t |-> "int",   n |-> i, s |-> <<>>, c |-> <<>>]
PyFloat(i)   == [t |-> "float", n |-> i, s |-> <<>>, c |-> <<>>]     \* the float i.0
PyNaN        == [t |-> "float", n |-> 0, s |-> <<"n", "a", "n">>, c |-> <<>>]  \* float("nan")
PyStr(str)   == [t |-> "str",   n |-> 0, s |-> str, c |-> <<>>]
\* a list of the given items; a dict of the given entries, in insertion order
PyList(items) == [t |-> "list", n |-> 0, s |-> <<>>,
                  c |-> [i \in 1..Len(items) |-> Entry(<<>>, items[i])]]
PyDict(entries) == [t |-> "dict", n |-> 0, s |-> <<>>, c |-> entries]

IsNaN(v)       == v.t = "float" /\ v.s # <<>>
IsNumber(v)    == v.t \in {"bool", "int", "float"}
IsContainer(v) == v.t \in {"dict", "list"}

\* Python truthiness: bool(v).
Truthy(v) ==
    CASE v.t = "NoneType" -> FALSE
      [] IsNumber(v)      -> IsNaN(v) \/ v.n # 0
      [] v.t = "str"      -> v.s # <<>>
      [] OTHER            -> v.c # <<>>

\* Python's a == b.  Numbers compare by value across bool, int and float
\* (True == 1 == 1.0), NaN equals nothing, not even itself.  Containers are
\* compared here only when one of them is empty (the flattener recurses into
\* every non-empty container), so the element-wise case is not needed.
PyEq(a, b) ==
    CASE IsNumber(a) /\ IsNumber(b)  -> ~IsNaN(a) /\ ~IsNaN(b) /\ a.n = b.n
      [] a.t = "str" /\ b.t = "str"  -> a.s = b.s
      [] a.t = "NoneType" /\ b.t = "NoneType" -> TRUE
      [] IsContainer(a) /\ a.t = b.t    -> a.c = b.c
      [] OTHER -> FALSE


-----------------------------------------------------------------------------
(* Node path utilities *)

\* The assignments nodes[new_path] = value that flatten_to_nodes makes, in the
\* order it makes them (dict.update of a recursive result assigns its entries).
RECURSIVE flatten_assignments(_, _)
flatten_assignments(data, path) ==
    IF data.t = "dict" THEN
        Concat([i \in 1..Len(data.c) |->
            LET key      == data.c[i].k
                value    == data.c[i].e
                new_path == IF path # <<>> THEN path \o <<".">> \o key ELSE key
            IN  IF IsContainer(value) /\ Truthy(value)
                THEN flatten_assignments(value, new_path)
                ELSE <<Entry(new_path, value)>>])
    ELSE IF data.t = "list" THEN
        Concat([i \in 1..Len(data.c) |->
            LET item     == data.c[i].e
                new_path == path \o <<"[">> \o IntToStr(i - 1) \o <<"]">>
            IN  IF IsContainer(item) /\ Truthy(item)
                THEN flatten_assignments(item, new_path)
                ELSE <<Entry(new_path, item)>>])
    ELSE IF path # <<>> THEN <<Entry(path, data)>> ELSE <<>>

\* The dict a sequence of assignments leaves: path -> the last value assigned.
DictOf(assignments) ==
    [p \in {assignments[i].k : i \in DOMAIN assignments} |->
        LET last == CHOOSE i \in DOMAIN assignments :
                        /\ assignments[i].k = p
                        /\ \A j \in DOMAIN assignments : assignments[j].k = p => j <= i
        IN  assignments[last].e]

\* flatten_to_nodes(data, path): the dict of path -> leaf value.
flatten_to_nodes(data, path) == DictOf(flatten_assignments(data, path))

\* Mutant of sorted: reverse=True, the paths in descending order.
RECURSIVE sorted_descending(_)
sorted_descending(paths) ==
    IF paths = {} THEN <<>>
    ELSE LET greatest == CHOOSE p \in paths : \A q \in paths : StrLessEq(q, p)
         IN  <<greatest>> \o sorted_descending(paths \ {greatest})

\* sorted(paths): the paths in ascending str order.
RECURSIVE sorted(_)
sorted(paths) ==
    IF paths = {} THEN <<>>
    ELSE LET least == CHOOSE p \in paths : \A q \in paths : StrLessEq(p, q)
         IN  <<least>> \o sorted(paths \ {least})

-----------------------------------------------------------------------------
(* Timestamps *)

\* A datetime; tz = <<>> for a naive one, <<m>> for tzinfo at UTC offset m minutes.
DateTime(y, mo, d, h, mi, sec, us, tzinfo) ==
    [year |-> y, month |-> mo, day |-> d, hour |-> h, minute |-> mi,
     second |-> sec, microsecond |-> us, tz |-> tzinfo]

\* dt.replace(tzinfo=None): the same wall-clock fields, the zone dropped.
replace_tzinfo_none(dt) == [dt EXCEPT !.tz = <<>>]

\* dt.isoformat() of a naive datetime: YYYY-MM-DDTHH:MM:SS, and .ffffff only
\* when the microsecond is not zero.
isoformat(dt) ==
    ZeroPad(dt.year, 4) \o <<"-">> \o ZeroPad(dt.month, 2) \o <<"-">> \o ZeroPad(dt.day, 2)
    \o <<"T">> \o ZeroPad(dt.hour, 2) \o <<":">> \o ZeroPad(dt.minute, 2)
    \o <<":">> \o ZeroPad(dt.second, 2)
    \o (IF dt.microsecond # 0 THEN <<".">> \o ZeroPad(dt.microsecond, 6) ELSE <<>>)

\* timestamp.replace(tzinfo=None).isoformat() + "Z"
timestamp_str(dt) == isoformat(replace_tzinfo_none(dt)) \o <<"Z">>

-----------------------------------------------------------------------------
(* Diff algorithm *)

\* class ChangeType
ADDED    == PyStr(<<"a", "d", "d", "e", "d">>)
MODIFIED == PyStr(<<"m", "o", "d", "i", "f", "i", "e", "d">>)
REMOVED  == PyStr(<<"r", "e", "m", "o", "v", "e", "d">>)

\* str(value) for a value that is neither a scalar nor a list or dict.
str_of(value) == PyStr(value.s)

\* __serialize_value: scalars, lists and dicts pass through, anything else is
\* turned into its string form.
_serialize_value(value) ==
    IF value.t \in {"str", "int", "float", "bool", "NoneType"} THEN value
    ELSE IF value.t \in {"list", "dict"} THEN value
    ELSE str_of(value)

\* Mutant of change_for: the branch for removed paths is missing.
change_for_drops_removed(path, old_nodes, new_nodes, ts, source) ==
    LET in_old == path \in DOMAIN old_nodes
        in_new == path \in DOMAIN new_nodes
    IN  IF in_new /\ ~in_old THEN
            <<[timestamp |-> PyStr(ts), source |-> PyStr(source), type |-> ADDED,
               path |-> PyStr(path),
               value |-> _serialize_value(new_nodes[path])]>>
        ELSE IF in_old /\ ~in_new THEN <<>>
        ELSE IF ~PyEq(old_nodes[path], new_nodes[path]) THEN
            <<[timestamp |-> PyStr(ts), source |-> PyStr(source), type |-> MODIFIED,
               path |-> PyStr(path),
               old |-> _serialize_value(old_nodes[path]),
               new |-> _serialize_value(new_nodes[path])]>>
        ELSE <<>>

\* Mutant of change_for: a modified record carries old and new exchanged.
change_for_swaps_old_new(path, old_nodes, new_nodes, ts, source) ==
    LET in_old == path \in DOMAIN old_nodes
        in_new == path \in DOMAIN new_nodes
    IN  IF in_new /\ ~in_old THEN
            <<[timestamp |-> PyStr(ts), source |-> PyStr(source), type |-> ADDED,
               path |-> PyStr(path),
               value |-> _serialize_value(new_nodes[path])]>>
        ELSE IF in_old /\ ~in_new THEN
            <<[timestamp |-> PyStr(ts), source |-> PyStr(source), type |-> REMOVED,
               path |-> PyStr(path),
               old |-> _serialize_value(old_nodes[path])]>>
        ELSE IF ~PyEq(old_nodes[path], new_nodes[path]) THEN
            <<[timestamp |-> PyStr(ts), source |-> PyStr(source), type |-> MODIFIED,
               path |-> PyStr(path),
               old |-> _serialize_value(new_nodes[path]),
               new |-> _serialize_value(old_nodes[path])]>>
        ELSE <<>>

\* Mutant of change_for: a removed record carries its value under "value".
change_for_removed_as_value(path, old_nodes, new_nodes, ts, source) ==
    LET in_old == path \in DOMAIN old_nodes
        in_new == path \in DOMAIN new_nodes
    IN  IF in_new /\ ~in_old THEN
            <<[timestamp |-> PyStr(ts), source |-> PyStr(source), type |-> ADDED,
               path |-> PyStr(path),
               value |-> _serialize_value(new_nodes[path])]>>
        ELSE IF in_old /\ ~in_new THEN
            <<[timestamp |-> PyStr(ts), source |-> PyStr(source), type |-> REMOVED,
               path |-> PyStr(path),
               value |-> _serialize_value(old_nodes[path])]>>
        ELSE IF ~PyEq(old_nodes[path], new_nodes[path]) THEN
            <<[timestamp |-> PyStr(ts), source |-> PyStr(source), type |-> MODIFIED,
               path |-> PyStr(path),
               old |-> _serialize_value(old_nodes[path]),
               new |-> _serialize_value(new_nodes[path])]>>
        ELSE <<>>

\* The record compute_diff appends for one path, or none (<<>>).  A change is
\* a Python dict with str keys: a record whose fields hold Python values.
change_for(path, old_nodes, new_nodes, ts, source) ==
    LET in_old == path \in DOMAIN old_nodes
        in_new == path \in DOMAIN new_nodes
    IN  IF in_new /\ ~in_old THEN
            <<[timestamp |-> PyStr(ts), source |-> PyStr(source), type |-> ADDED,
               path |-> PyStr(path),
               value |-> _serialize_value(new_nodes[path])]>>
        ELSE IF in_old /\ ~in_new THEN
            <<[timestamp |-> PyStr(ts), source |-> PyStr(source), type |-> REMOVED,
               path |-> PyStr(path),
               old |-> _serialize_value(old_nodes[path])]>>
        ELSE IF ~PyEq(old_nodes[path], new_nodes[path]) THEN
            <<[timestamp |-> PyStr(ts), source |-> PyStr(source), type |-> MODIFIED,
               path |-> PyStr(path),
               old |-> _serialize_value(old_nodes[path]),
               new |-> _serialize_value(new_nodes[path])]>>
        ELSE <<>>

\* compute_diff(old_data, new_data, source_file, timestamp).  old is PyNone for
\* "no previous version"; ts is <<>> for "timestamp not given", and then the
\* clock value clk (datetime.now(timezone.utc)) is used.
compute_diff(old, new, source, ts, clk) ==
    LET stamp     == IF ts = <<>> THEN clk ELSE ts[1]
        ts_str    == timestamp_str(stamp)
        old_nodes == IF Truthy(old) THEN flatten_to_nodes(old, <<>>) ELSE <<>>
        new_nodes == flatten_to_nodes(new, <<>>)
        all_paths == DOMAIN old_nodes \cup DOMAIN new_nodes
        order     == sorted(all_paths)
    IN  Concat([i \in 1..Len(order) |->
                   change_for(order[i], old_nodes, new_nodes, ts_str, source)])

-----------------------------------------------------------------------------
(* Serialized forms: JSON lines and YAML documents *)

IsDigit(ch) == ch \in {"0", "1", "2", "3", "4", "5", "6", "7", "8", "9"}
IsDigits(text) == text # <<>> /\ \A i \in DOMAIN text : IsDigit(text[i])

DigitVal(ch) == CHOOSE d \in 0..9 : DigitChar(d) = ch

\* int(text) for a text of decimal digits.
RECURSIVE StrToInt(_)
StrToInt(text) ==
    IF Len(text) = 1 THEN DigitVal(text[1])
    ELSE 10 * StrToInt(SubSeq(text, 1, Len(text) - 1)) + DigitVal(text[Len(text)])

\* The position of the first "." of a text, 0 when it has none.
DotAt(text) ==
    IF \E i \in DOMAIN text : text[i] = "."
    THEN CHOOSE i \in DOMAIN text : text[i] = "." /\ \A j \in 1..(i - 1) : text[j] # "."
    ELSE 0

\* digits "." digits: the form repr() gives a finite float of the model.
IsFloatText(text) ==
    /\ DotAt(text) > 1
    /\ IsDigits(SubSeq(text, 1, DotAt(text) - 1))
    /\ IsDigits(SubSeq(text, DotAt(text) + 1, Len(text)))

\* The float a text of the form digits "." zeros denotes.
FloatOfText(text) == PyFloat(StrToInt(SubSeq(text, 1, DotAt(text) - 1)))

\* repr(x) of a float of the model that is not NaN: "<n>.0".
float_repr(v) == IntToStr(v.n) \o <<".", "0">>

tTrue  == <<"t", "r", "u", "e">>
tFalse == <<"f", "a", "l", "s", "e">>
tNull  == <<"n", "u", "l", "l">>
tJsonNaN == <<"N", "a", "N">>
tYamlNaN == <<".", "n", "a", "n">>

\* A JSON text, as the tree of its tokens: j is "string", "token" (a number
\* or a literal, spelled out in text), "array" or "object".
JNode(kind, text, members) == [j |-> kind, text |-> text, m |-> members]

\* json.dumps(value, ensure_ascii=False) of a Python value.
RECURSIVE json_dumps(_)
json_dumps(v) ==
    CASE v.t = "str"      -> JNode("string", v.s, <<>>)
      [] v.t = "NoneType" -> JNode("token", tNull, <<>>)
      [] v.t = "bool"     -> JNode("token", IF v.n = 1 THEN tTrue ELSE tFalse, <<>>)
      [] v.t = "int"      -> JNode("token", IntToStr(v.n), <<>>)
      [] v.t = "float"    -> JNode("token", IF IsNaN(v) THEN tJsonNaN ELSE float_repr(v), <<>>)
      [] v.t = "list"     ->
            JNode("array", <<>>, [i \in DOMAIN v.c |-> Entry(<<>>, json_dumps(v.c[i].e))])
      [] v.t = "dict"     ->
            JNode("object", <<>>, [i \in DOMAIN v.c |-> Entry(v.c[i].k, json_dumps(v.c[i].e))])

\* Mutant of json_loads: the token NaN, which JSON proper does not have, is
\* read as null.
RECURSIVE json_loads_nan_as_null(_)
json_loads_nan_as_null(node) ==
    CASE node.j = "string" -> PyStr(node.text)
      [] node.j = "token"  ->
            (CASE node.text = tNull     -> PyNone
               [] node.text = tTrue     -> PyBool(TRUE)
               [] node.text = tFalse    -> PyBool(FALSE)
               [] node.text = tJsonNaN  -> PyNone
               [] IsDigits(node.text)   -> PyInt(StrToInt(node.text))
               [] OTHER                 -> FloatOfText(node.text))
      [] node.j = "array"  ->
            PyList([i \in DOMAIN node.m |-> json_loads_nan_as_null(node.m[i].e)])
      [] node.j = "object" ->
            PyDict([i \in DOMAIN node.m |->
                       Entry(node.m[i].k, json_loads_nan_as_null(node.m[i].e))])

\* json.loads of a JSON text that parses.
RECURSIVE json_loads(_)
json_loads(node) ==
    CASE node.j = "string" -> PyStr(node.text)
      [] node.j = "token"  ->
            (CASE node.text = tNull     -> PyNone
               [] node.text = tTrue     -> PyBool(TRUE)
               [] node.text = tFalse    -> PyBool(FALSE)
               [] node.text = tJsonNaN  -> PyNaN
               [] IsDigits(node.text)   -> PyInt(StrToInt(node.text))
               [] OTHER                 -> FloatOfText(node.text))
      [] node.j = "array"  -> PyList([i \in DOMAIN node.m |-> json_loads(node.m[i].e)])
      [] node.j = "object" ->
            PyDict([i \in DOMAIN node.m |-> Entry(node.m[i].k, json_loads(node.m[i].e))])

\* One line of changelog.jsonl.  A change is a dict with str keys, written as
\* one JSON object: the record of the JSON texts of its fields.
json_line(change) == [f \in DOMAIN change |-> json_dumps(change[f])]

\* json.loads(line) of a line that holds a JSON object.
parse_line(line) == [f \in DOMAIN line |-> json_loads(line[f])]

\* What the YAML resolver makes of a plain (unquoted) scalar.
resolve_plain(text) ==
    CASE text = tNull \/ text = <<"~">> \/ text = <<>> -> PyNone
      [] text = tTrue      -> PyBool(TRUE)
      [] text = tFalse     -> PyBool(FALSE)
      [] text = tYamlNaN   -> PyNaN
      [] IsDigits(text)    -> PyInt(StrToInt(text))
      [] IsFloatText(text) -> FloatOfText(text)
      [] OTHER             -> PyStr(text)

\* A YAML scalar node: quoted or plain, with its text.
YScalar(style, text) == [y |-> "scalar", style |-> style, text |-> text, m |-> <<>>]

\* The scalar node the YAML representer writes for a str: plain, unless the
\* plain text would be read back as something other than that str.
yaml_str(text) ==
    YScalar(IF resolve_plain(text) = PyStr(text) THEN "plain" ELSE "quoted", text)

\* Mutant of yaml_dump: a NaN is written as Python spells it, nan, which
\* YAML reads as a str.
RECURSIVE yaml_dump_python_nan(_)
yaml_dump_python_nan(v) ==
    CASE v.t = "str"      -> yaml_str(v.s)
      [] v.t = "NoneType" -> YScalar("plain", tNull)
      [] v.t = "bool"     -> YScalar("plain", IF v.n = 1 THEN tTrue ELSE tFalse)
      [] v.t = "int"      -> YScalar("plain", IntToStr(v.n))
      [] v.t = "float"    ->
            YScalar("plain", IF IsNaN(v) THEN <<"n", "a", "n">> ELSE float_repr(v))
      [] v.t = "list"     ->
            [y |-> "seq", style |-> "block", text |-> <<>>,
             m |-> [i \in DOMAIN v.c |->
                       [k |-> YScalar("plain", <<>>), e |-> yaml_dump_python_nan(v.c[i].e)]]]
      [] v.t = "dict"     ->
            [y |-> "map", style |-> "block", text |-> <<>>,
             m |-> [i \in DOMAIN v.c |->
                       [k |-> yaml_str(v.c[i].k), e |-> yaml_dump_python_nan(v.c[i].e)]]]

\* yaml.dump(data): the node tree of the document written.
RECURSIVE yaml_dump(_)
yaml_dump(v) ==
    CASE v.t = "str"      -> yaml_str(v.s)
      [] v.t = "NoneType" -> YScalar("plain", tNull)
      [] v.t = "bool"     -> YScalar("plain", IF v.n = 1 THEN tTrue ELSE tFalse)
      [] v.t = "int"      -> YScalar("plain", IntToStr(v.n))
      [] v.t = "float"    -> YScalar("plain", IF IsNaN(v) THEN tYamlNaN ELSE float_repr(v))
      [] v.t = "list"     ->
            [y |-> "seq", style |-> "block", text |-> <<>>,
             m |-> [i \in DOMAIN v.c |-> [k |-> YScalar("plain", <<>>), e |-> yaml_dump(v.c[i].e)]]]
      [] v.t = "dict"     ->
            [y |-> "map", style |-> "block", text |-> <<>>,
             m |-> [i \in DOMAIN v.c |-> [k |-> yaml_str(v.c[i].k), e |-> yaml_dump(v.c[i].e)]]]

\* yaml.load of a well-formed document (mapping keys are read as str).
RECURSIVE yaml_load(_)
yaml_load(node) ==
    CASE node.y = "scalar" ->
            IF node.style = "quoted" THEN PyStr(node.text) ELSE resolve_plain(node.text)
      [] node.y = "seq" -> PyList([i \in DOMAIN node.m |-> yaml_load(node.m[i].e)])
      [] node.y = "map" ->
            PyDict([i \in DOMAIN node.m |-> Entry(node.m[i].k.text, yaml_load(node.m[i].e))])

-----------------------------------------------------------------------------
(* Path codec *)

\* A path segment is a mapping key (a str) or a sequence index (an int).
Key(text) == PyStr(text)
Index(i)  == PyInt(i)

\* The path flatten_to_nodes builds for the leaf reached through the segments:
\* new_path = f"{path}.{key}" if path else key, and f"{path}[{i}]".
RECURSIVE render_from(_, _)
render_from(segs, prefix) ==
    IF segs = <<>> THEN prefix
    ELSE LET seg == Head(segs)
             new_path == IF seg.t = "int"
                         THEN prefix \o <<"[">> \o IntToStr(seg.n) \o <<"]">>
                         ELSE IF prefix # <<>> THEN prefix \o <<".">> \o seg.s ELSE seg.s
         IN  render_from(Tail(segs), new_path)

render(segs) == render_from(segs, <<>>)

\* int(text) accepts an optional sign followed by decimal digits (and, outside
\* the characters of the model, surrounding whitespace and single underscores
\* between digits); anything else raises ValueError.
int_accepts(text) ==
    LET body == IF text # <<>> /\ text[1] \in {"-", "+"} THEN Tail(text) ELSE text
    IN  body # <<>> /\ IsDigits(body)

int_of(text) ==
    IF text[1] = "-" THEN 0 - StrToInt(Tail(text))
    ELSE IF text[1] = "+" THEN StrToInt(Tail(text))
    ELSE StrToInt(text)

\* path.find("]", i): the first position from i on holding "]", 0 for none
\* (positions count from 1 here).
find_closing(text, i) ==
    IF \E j \in i..Len(text) : text[j] = "]"
    THEN CHOOSE j \in i..Len(text) : text[j] = "]" /\ \A k \in i..(j - 1) : text[k] # "]"
    ELSE 0

NotParsed        == [status |-> "not called", parts |-> <<>>]
Parts(parts)     == [status |-> "returned", parts |-> parts]
ValueError(what) == [status |-> what, parts |-> <<>>]

\* The loop of _parse_path from position i, with the parts and the current
\* key text collected so far.
RECURSIVE parse_loop(_, _, _, _)
parse_loop(text, i, parts, current) ==
    LET flushed == IF current # <<>> THEN Append(parts, Key(current)) ELSE parts
    IN  IF i > Len(text) THEN Parts(flushed)
        ELSE IF text[i] = "." THEN parse_loop(text, i + 1, flushed, <<>>)
        ELSE IF text[i] = "[" THEN
            LET j         == find_closing(text, i)
                index_str == SubSeq(text, i + 1, j - 1)
            IN  IF j = 0 THEN ValueError("missing closing ']'")
                ELSE IF ~int_accepts(index_str) THEN ValueError("not a valid integer")
                ELSE parse_loop(text, j + 1, Append(flushed, Index(int_of(index_str))), <<>>)
        ELSE parse_loop(text, i + 1, parts, Append(current, text[i]))

\* _parse_path(path): the parts, or the ValueError raised.
_parse_path(text) == parse_loop(text, 1, <<>>, <<>>)

-----------------------------------------------------------------------------
(* Node lookup *)

\* What get_node_value gives: the tuple (found, value), or the ValueError
\* that _parse_path raised.
Found(value)  == [raised |-> "", found |-> TRUE, value |-> value]
NotFound      == [raised |-> "", found |-> FALSE, value |-> PyNone]
Raised(what)  == [raised |-> what, found |-> FALSE, value |-> PyNone]

\* The loop of get_node_value over the parts: an int part indexes a list, a
\* str part looks a key up in a dict, anything else is not found.
RECURSIVE walk(_, _)
walk(current, parts) ==
    IF parts = <<>> THEN Found(current)
    ELSE LET part == Head(parts)
         IN  IF part.t = "int" THEN
                 IF current.t # "list" \/ part.n < 0 \/ part.n >= Len(current.c)
                 THEN NotFound
                 ELSE walk(current.c[part.n + 1].e, Tail(parts))
             ELSE
                 IF current.t # "dict" \/ ~\E i \in DOMAIN current.c : current.c[i].k = part.s
                 THEN NotFound
                 ELSE walk(current.c[CHOOSE i \in DOMAIN current.c : current.c[i].k = part.s].e,
                           Tail(parts))

\* get_node_value(data, path)
get_node_value(data, path) ==
    IF path = <<>> THEN Found(data)
    ELSE LET parts == _parse_path(path)
         IN  IF parts.status # "returned" THEN Raised(parts.status)
             ELSE walk(data, parts.parts)

-----------------------------------------------------------------------------
(* Changelog storage *)

NoCall == [op |-> "none"]

\* One line of the file: kind is "json" (a JSON object, in json), "blank",
\* "garbage" (text that json.loads rejects) or "torn" (such text at the end
\* of the file with no newline after it, as a write cut short leaves it).
Line(kind, json) == [kind |-> kind, json |-> json]

\* A line that is not a record, as written by something else than append.
Foreign(kind) == Line(kind, [raw |-> kind])
ForeignKinds  == {"blank", "garbage", "torn"}

\* The file Changelog._ensure_file leaves when there was none: it exists, empty.
EmptyLog == [exists |-> TRUE, lines |-> <<>>]

\* Mutant of _ensure_file: the file is created anew whether it exists or not.
_ensure_file_always_creates(file) == EmptyLog

\* Changelog._ensure_file, called by Changelog.__init__: the file is created
\* empty if it does not exist, and is left alone if it does.
_ensure_file(file) == IF ~file.exists THEN EmptyLog ELSE file

\* Mutant of append_file: the file is opened with "w" instead of "a".
append_file_truncating(file, records) ==
    [exists |-> TRUE,
     lines  |-> [i \in DOMAIN records |-> Line("json", json_line(records[i]))]]

\* Mutant of append_file: the file is opened with "r+", which does not
\* create it.
append_file_existing_only(file, records) ==
    IF ~file.exists THEN file
    ELSE [exists |-> TRUE,
          lines  |-> file.lines \o [i \in DOMAIN records |-> Line("json", json_line(records[i]))]]

\* The file after Changelog.append(records): opened for append (created if
\* absent), one JSON line written per record.  The text is written at the
\* end of the file as it is: after a last line that has no newline the first
\* record continues that line, which json.loads then rejects.
append_file(file, records) ==
    LET written == [i \in DOMAIN records |-> Line("json", json_line(records[i]))]
        n       == Len(file.lines)
    IN  [exists |-> TRUE,
         lines  |-> IF n > 0 /\ file.lines[n].kind = "torn" /\ records # <<>>
                    THEN SubSeq(file.lines, 1, n - 1) \o <<Foreign("garbage")>> \o Tail(written)
                    ELSE file.lines \o written]

\* How a call of Changelog.append goes: it completes; or open() raises and
\* nothing is written; or a write raises after part of the text reached the
\* file, which then ends with the records before the last one and the
\* beginning of the last, with no newline.
AppendOutcomes == {"ok", "open_fails", "write_fails"}

append_attempt(file, records, appending) ==
    CASE appending = "ok"          -> append_file(file, records)
      [] appending = "open_fails"  -> file
      [] appending = "write_fails" ->
            LET begun == append_file(file, SubSeq(records, 1, Len(records) - 1))
                n     == Len(begun.lines)
            IN  [exists |-> TRUE,
                 lines  |-> IF n > 0 /\ begun.lines[n].kind = "torn"
                            THEN begun.lines
                            ELSE Append(begun.lines, Foreign("torn"))]

\* The lines read_all keeps: not blank after strip(), and accepted by json.loads.
RECURSIVE parsed_lines(_)
parsed_lines(lines) ==
    IF lines = <<>> THEN <<>>
    ELSE (IF Head(lines).kind = "json" THEN <<parse_line(Head(lines).json)>> ELSE <<>>)
         \o parsed_lines(Tail(lines))

\* Changelog.read_all(): every record of the file, oldest first.
read_all(file) == IF ~file.exists THEN <<>> ELSE parsed_lines(file.lines)

\* c.get(key, default) on a record read from the log.
dict_get(c, key, default) == IF key \in DOMAIN c THEN c[key] ELSE default

\* The sort key of the read views: c.get("timestamp", "").
timestamp_key(c) == dict_get(c, "timestamp", PyStr(<<>>)).s

\* Mutant of sort_newest_first: reverse=False, the oldest first.
RECURSIVE sort_oldest_first(_)
sort_oldest_first(records) ==
    IF records = <<>> THEN <<>>
    ELSE LET first == CHOOSE i \in DOMAIN records :
                          /\ \A j \in DOMAIN records :
                                 StrLessEq(timestamp_key(records[i]), timestamp_key(records[j]))
                          /\ \A j \in 1..(i - 1) :
                                 timestamp_key(records[j]) # timestamp_key(records[i])
         IN  <<records[first]>>
             \o sort_oldest_first(SubSeq(records, 1, first - 1)
                                  \o SubSeq(records, first + 1, Len(records)))

\* list.sort(key=lambda c: c.get("timestamp", ""), reverse=True): descending
\* by timestamp string; the sort is stable, records with equal keys keep
\* their order.
RECURSIVE sort_newest_first(_)
sort_newest_first(records) ==
    IF records = <<>> THEN <<>>
    ELSE LET first == CHOOSE i \in DOMAIN records :
                          /\ \A j \in DOMAIN records :
                                 StrLessEq(timestamp_key(records[j]), timestamp_key(records[i]))
                          /\ \A j \in 1..(i - 1) :
                                 timestamp_key(records[j]) # timestamp_key(records[i])
         IN  <<records[first]>>
             \o sort_newest_first(SubSeq(records, 1, first - 1)
                                  \o SubSeq(records, first + 1, Len(records)))

\* [c for c in all_changes if ...]: the records at the kept positions, in order.
RECURSIVE filtered(_, _)
filtered(records, kept) ==
    IF records = <<>> THEN <<>>
    ELSE filtered(SubSeq(records, 1, Len(records) - 1), kept)
         \o (IF Len(records) \in kept THEN <<records[Len(records)]>> ELSE <<>>)

\* records[:limit]: the first limit items, and for a negative limit all but
\* the last -limit items.
slice_to(records, limit) ==
    IF limit >= 0
    THEN SubSeq(records, 1, IF limit < Len(records) THEN limit ELSE Len(records))
    ELSE SubSeq(records, 1, Len(records) + limit)

\* Changelog.read_recent(limit)
read_recent(file, limit) == slice_to(sort_newest_first(read_all(file)), limit)

\* Changelog.read_by_source(source)
read_by_source(file, source) ==
    LET all_changes == read_all(file)
        kept == {i \in DOMAIN all_changes :
                    PyEq(dict_get(all_changes[i], "source", PyNone), PyStr(source))}
    IN  sort_newest_first(filtered(all_changes, kept))

\* Mutant of startswith: the whole text has to be the prefix.
startswith_whole(text, prefix) == text = prefix

\* str.startswith(prefix)
startswith(text, prefix) ==
    Len(prefix) <= Len(text) /\ SubSeq(text, 1, Len(prefix)) = prefix

\* Changelog.read_by_path(path)
read_by_path(file, prefix) ==
    LET all_changes == read_all(file)
        kept == {i \in DOMAIN all_changes :
                    startswith(dict_get(all_changes[i], "path", PyStr(<<>>)).s, prefix)}
    IN  sort_newest_first(filtered(all_changes, kept))

\* Changelog.read_by_date_range(start, end): start and end are <<>> for None
\* or hold one datetime.
read_by_date_range(file, start, end) ==
    LET start_str == IF start # <<>> THEN timestamp_str(start[1]) ELSE <<>>
        end_str   == IF end # <<>> THEN timestamp_str(end[1]) ELSE <<"9", "9", "9", "9">>
        all_changes == read_all(file)
        kept == {i \in DOMAIN all_changes :
                    /\ StrLessEq(start_str, timestamp_key(all_changes[i]))
                    /\ StrLessEq(timestamp_key(all_changes[i]), end_str)}
    IN  sort_newest_first(filtered(all_changes, kept))

\* Changelog.read_by_type(change_type)
read_by_type(file, change_type) ==
    LET all_changes == read_all(file)
        kept == {i \in DOMAIN all_changes :
                    PyEq(dict_get(all_changes[i], "type", PyNone), PyStr(change_type))}
    IN  sort_newest_first(filtered(all_changes, kept))

-----------------------------------------------------------------------------
(* Document version cache *)

\* str.replace("/", "__").replace("\\", "__")
RECURSIVE replace_separators(_)
replace_separators(name) ==
    IF name = <<>> THEN <<>>
    ELSE (IF Head(name) \in {"/", "\\"} THEN <<"_", "_">> ELSE <<Head(name)>>)
         \o replace_separators(Tail(name))

\* Mutant of _cache_path: the directory part of the source is dropped, the
\* file is named after what follows the last separator.
_cache_path_of_basename(source) ==
    LET seps == {i \in DOMAIN source : source[i] \in {"/", "\\"}}
        from == IF seps = {} THEN 1
                ELSE 1 + (CHOOSE i \in seps : \A j \in seps : j <= i)
    IN  <<".">> \o SubSeq(source, from, Len(source)) \o <<".", "p", "r", "e", "v">>

\* VersionCache._cache_path: the file name "." + safe_name + ".prev".
_cache_path(source) ==
    <<".">> \o replace_separators(source) \o <<".", "p", "r", "e", "v">>

\* A cache file: a complete YAML document, or what a failed dump left of it
\* after open(.., "w") truncated it (nothing, or text that does not load).
Document(node) == [kind |-> "document", node |-> node]
Truncated      == [kind |-> "truncated", node |-> YScalar("plain", <<>>)]

\* Mutant of get_previous: a file that does not load is not caught, the
\* exception reaches the caller.
get_previous_uncaught(dir, source) ==
    LET path == _cache_path(source)
    IN  IF path \notin DOMAIN dir THEN PyNone
        ELSE IF dir[path].kind = "document" THEN yaml_load(dir[path].node)
        ELSE [t |-> "Exception", n |-> 0, s |-> <<>>, c |-> <<>>]

\* VersionCache.get_previous(source_file): None when there is no file, and
\* when loading it fails or finds no document.
get_previous(dir, source) ==
    LET path == _cache_path(source)
    IN  IF path \notin DOMAIN dir THEN PyNone
        ELSE IF dir[path].kind = "document" THEN yaml_load(dir[path].node)
        ELSE PyNone

Put(f, key, value) == [x \in DOMAIN f \cup {key} |-> IF x = key THEN value ELSE f[x]]

SaveOutcomes == {"ok", "open_fails", "dump_fails"}

\* Mutant of save_file: the file is written only when there is none yet.
save_file_keeps_first(dir, source, data, outcome) ==
    CASE outcome = "ok" ->
            IF _cache_path(source) \in DOMAIN dir THEN dir
            ELSE Put(dir, _cache_path(source), Document(yaml_dump(data)))
      [] outcome = "open_fails" -> dir
      [] outcome = "dump_fails" -> Put(dir, _cache_path(source), Truncated)

\* The cache directory after VersionCache.save_current(source_file, data).
\* The write succeeds; or open() raises and the file is as before; or
\* yaml.dump raises after open() truncated the file.  Either error is logged.
save_file(dir, source, data, outcome) ==
    CASE outcome = "ok"         -> Put(dir, _cache_path(source), Document(yaml_dump(data)))
      [] outcome = "open_fails" -> dir
      [] outcome = "dump_fails" -> Put(dir, _cache_path(source), Truncated)

-----------------------------------------------------------------------------
(* Orchestrator *)

\* Mutant of diff_and_log: the cache is saved before the changes are appended.
diff_and_log_saves_first(dir, file, source, new, clk, appending, saving) ==
    LET old     == get_previous(dir, source)
        chgs    == compute_diff(old, new, source, <<>>, clk)
        raises  == chgs # <<>> /\ appending # "ok"
    IN  [old     |-> old,
         changes |-> chgs,
         append_called |-> chgs # <<>>,
         raised  |-> raises,
         file    |-> IF chgs # <<>> THEN append_attempt(file, chgs, appending) ELSE file,
         saved   |-> TRUE,
         dir     |-> save_file(dir, source, new, saving)]

\* diff_and_log(source_file, new_data, changelog, version_cache), called
\* without a timestamp: the previous version is read, the diff computed at
\* the clock value clk, the changes appended if there are any, then the
\* cache overwritten.  An error of append is not caught: it reaches the
\* caller and save_current is not called.  An error of save_current is
\* caught inside it.  The record gives the old document read, the changes,
\* whether append was called and whether it raised, whether save_current
\* was called, and both files afterwards.
diff_and_log(dir, file, source, new, clk, appending, saving) ==
    LET old     == get_previous(dir, source)
        chgs    == compute_diff(old, new, source, <<>>, clk)
        raises  == chgs # <<>> /\ appending # "ok"
    IN  [old     |-> old,
         changes |-> chgs,
         append_called |-> chgs # <<>>,
         raised  |-> raises,
         file    |-> IF chgs # <<>> THEN append_attempt(file, chgs, appending) ELSE file,
         saved   |-> ~raises,
         dir     |-> IF raises THEN dir ELSE save_file(dir, source, new, saving)]

-----------------------------------------------------------------------------
(* Proposal writer *)

\* An optional value: <<>> when the key is absent, <<v>> when it holds v.
Absent     == <<>>
Present(v) == <<v>>

\* The summary file: a YAML mapping with an id and the four lists, each of
\* which may be absent; or a file a failed dump left truncated, which loads
\* as no document.
SummaryDoc(id, learnings, decisions, open_questions, links) ==
    [kind |-> "document", id |-> id, learnings |-> learnings, decisions |-> decisions,
     open_questions |-> open_questions, links |-> links]
TruncatedSummary ==
    [kind |-> "truncated", id |-> "", learnings |-> Absent, decisions |-> Absent,
     open_questions |-> Absent, links |-> Absent]
\* No summary file is in use.
NoSummary ==
    [kind |-> "none", id |-> "", learnings |-> Absent, decisions |-> Absent,
     open_questions |-> Absent, links |-> Absent]

\* The items of the lists: a learning is keyed by its insight, a decision by
\* its decision text, a link by its id; a question is its own text.
Learning(insight, context, relevance) ==
    [insight |-> insight, context |-> context, relevance |-> relevance]
Decision(decision, rationale, date) ==
    [decision |-> decision, rationale |-> rationale, date |-> date]
Link(id, relationship) == [id |-> id, relationship |-> relationship]

Proposal(target, source, new_learnings, new_decisions, new_open_questions, new_links) ==
    [target_summary_id |-> target, source_entry_id |-> source,
     new_learnings |-> new_learnings, new_decisions |-> new_decisions,
     new_open_questions |-> new_open_questions, new_links |-> new_links]

\* validate_proposal: the error message, "" for a valid proposal.  The items
\* of the model are well-formed, so only the two ids can be missing.
validate_proposal(proposal) ==
    IF proposal.target_summary_id = "" THEN "Missing target_summary_id"
    ELSE IF proposal.source_entry_id = "" THEN "Missing source_entry_id"
    ELSE ""

\* find_summary_file: the file is found when it loads to a document with the id.
find_summary_file(summary_id, file) ==
    file.kind = "document" /\ file.id = summary_id

\* summary[key], created as [] when absent.
list_of(opt) == IF opt = Absent THEN <<>> ELSE opt[1]

\* The learning as appended: relevance is set to, or extended by, the source
\* entry.
with_relevance(learning, source) ==
    IF learning.relevance = Absent
    THEN [learning EXCEPT !.relevance = Present(<<source>>)]
    ELSE IF \E i \in DOMAIN learning.relevance[1] : learning.relevance[1][i] = source
    THEN learning
    ELSE [learning EXCEPT !.relevance = Present(Append(learning.relevance[1], source))]

\* The loop over proposal["new_learnings"]: a learning is appended when its
\* insight is not among those of the list as it is then.
RECURSIVE add_learnings(_, _, _)
add_learnings(list, new, source) ==
    IF new = <<>> THEN list
    ELSE LET existing_insights == {list[i].insight : i \in DOMAIN list}
         IN  IF Head(new).insight \notin existing_insights
             THEN add_learnings(Append(list, with_relevance(Head(new), source)), Tail(new), source)
             ELSE add_learnings(list, Tail(new), source)

\* The decision as appended: the date is set to today when absent.
with_date(decision) ==
    IF decision.date = Absent THEN [decision EXCEPT !.date = Present("today")]
    ELSE decision

\* The loop over proposal["new_decisions"]
RECURSIVE add_decisions(_, _)
add_decisions(list, new) ==
    IF new = <<>> THEN list
    ELSE LET existing_decisions == {list[i].decision : i \in DOMAIN list}
         IN  IF Head(new).decision \notin existing_decisions
             THEN add_decisions(Append(list, with_date(Head(new))), Tail(new))
             ELSE add_decisions(list, Tail(new))

\* The loop over proposal["new_open_questions"]
RECURSIVE add_questions(_, _)
add_questions(list, new) ==
    IF new = <<>> THEN list
    ELSE IF \A i \in DOMAIN list : list[i] # Head(new)
         THEN add_questions(Append(list, Head(new)), Tail(new))
         ELSE add_questions(list, Tail(new))

\* The loop over proposal["new_links"]: existing_link_ids is computed once,
\* before the loop.
RECURSIVE add_links(_, _, _)
add_links(list, new, existing_link_ids) ==
    IF new = <<>> THEN list
    ELSE IF Head(new).id \notin existing_link_ids
         THEN add_links(Append(list, Head(new)), Tail(new), existing_link_ids)
         ELSE add_links(list, Tail(new), existing_link_ids)

\* One list after the proposal's items were applied: untouched (possibly
\* absent) when the proposal has none for it.
applied(opt, new, result) == IF new = <<>> THEN opt ELSE Present(result)

\* The entries of changes_made for the items added to one list: keys holds
\* the keys of the list afterwards, the first count of them were there before.
added_to(what, count, keys) ==
    [i \in 1..(Len(keys) - count) |-> [added |-> what, key |-> keys[count + i]]]

\* The keys of the items of a list of learnings, of decisions and of links.
insights_of(list)  == [i \in DOMAIN list |-> list[i].insight]
decisions_of(list) == [i \in DOMAIN list |-> list[i].decision]
ids_of(list)       == [i \in DOMAIN list |-> list[i].id]

SummaryOutcomes == {"ok", "open_fails", "dump_fails"}

Failure(error) == [success |-> FALSE, error |-> error, changes |-> <<>>]
Success(made)  == [success |-> TRUE, error |-> "", changes |-> made]

\* apply_update(proposal, content_dir) on the summary file: the result
\* returned, the file afterwards, and whether the file was opened for
\* writing.  outcome says how the write goes: it succeeds, or open() raises,
\* or yaml.dump raises after open() truncated the file.
apply_update(proposal, file, outcome) ==
    LET error == validate_proposal(proposal)
        source == proposal.source_entry_id
        after == SummaryDoc(file.id,
                    applied(file.learnings, proposal.new_learnings,
                            add_learnings(list_of(file.learnings), proposal.new_learnings, source)),
                    applied(file.decisions, proposal.new_decisions,
                            add_decisions(list_of(file.decisions), proposal.new_decisions)),
                    applied(file.open_questions, proposal.new_open_questions,
                            add_questions(list_of(file.open_questions), proposal.new_open_questions)),
                    applied(file.links, proposal.new_links,
                            add_links(list_of(file.links), proposal.new_links,
                                      {list_of(file.links)[i].id : i \in DOMAIN list_of(file.links)})))
        changes_made ==
            added_to("learning", Len(list_of(file.learnings)),
                     insights_of(list_of(after.learnings)))
            \o added_to("decision", Len(list_of(file.decisions)),
                        decisions_of(list_of(after.decisions)))
            \o added_to("question", Len(list_of(file.open_questions)),
                        list_of(after.open_questions))
            \o added_to("link", Len(list_of(file.links)), ids_of(list_of(after.links)))
    IN  IF error # "" THEN
            [result |-> Failure(error), file |-> file, wrote |-> FALSE]
        ELSE IF ~find_summary_file(proposal.target_summary_id, file) THEN
            [result |-> Failure("Summary file not found"), file |-> file, wrote |-> FALSE]
        ELSE IF changes_made = <<>> THEN
            [result |-> Success(<<>>), file |-> file, wrote |-> FALSE]
        ELSE CASE outcome = "ok" ->
                    [result |-> Success(changes_made), file |-> after, wrote |-> TRUE]
               [] outcome = "open_fails" ->
                    [result |-> Failure("Failed to write file"), file |-> file, wrote |-> FALSE]
               [] outcome = "dump_fails" ->
                    [result |-> Failure("Failed to write file"), file |-> TruncatedSummary,
                     wrote |-> TRUE]

-----------------------------------------------------------------------------
(* Inputs *)

kA     == <<"a">>
kB     == <<"b">>
kAdotB == <<"a", ".", "b">>
kEmpty == <<>>
Keys   == {kA, kB, kAdotB, kEmpty}

EmptyDict == PyDict(<<>>)
EmptyList == PyList(<<>>)

\* Scalar leaves: 1, 1.0 and True are == in Python, NaN is a float.
Scalars == {PyInt(1), PyFloat(1), PyBool(TRUE), PyStr(<<"x">>), PyNone, PyNaN}
Leaves  == Scalars \cup {EmptyDict, EmptyList}
SomeLeaves == {PyInt(1), PyStr(<<"x">>), EmptyList}

Dict1(k, v)           == PyDict(<<Entry(k, v)>>)
Dict2(k1, v1, k2, v2) == PyDict(<<Entry(k1, v1), Entry(k2, v2)>>)

\* Documents given to compute_diff: scalar and empty roots, flat and nested
\* mappings and sequences, both insertion orders of two keys, and mappings
\* whose keys render to the path of another leaf ("a.b" beside a: {b: ..},
\* "" above b beside b).
DiffDocs ==
    Leaves
    \cup {Dict1(k, v) : k \in Keys, v \in Leaves}
    \cup {Dict2(kA, v, kB, w) : v \in SomeLeaves, w \in SomeLeaves}
    \cup {Dict2(kB, w, kA, v) : v \in SomeLeaves, w \in SomeLeaves}
    \cup {PyList(<<v>>) : v \in Leaves}
    \cup {PyList(<<v, w>>) : v \in SomeLeaves, w \in SomeLeaves}
    \cup {Dict1(kA, Dict1(kB, v)) : v \in SomeLeaves}
    \cup {Dict1(kA, PyList(<<v>>)) : v \in SomeLeaves}
    \cup {PyList(<<Dict1(kA, v)>>) : v \in SomeLeaves}
    \cup {Dict2(kA, v, kB, PyList(<<w>>)) : v \in SomeLeaves, w \in SomeLeaves}
    \cup {Dict2(kA, Dict1(kB, v), kAdotB, w) : v \in SomeLeaves, w \in SomeLeaves}
    \cup {Dict2(kAdotB, w, kA, Dict1(kB, v)) : v \in SomeLeaves, w \in SomeLeaves}
    \cup {Dict2(kEmpty, Dict1(kB, v), kB, w) : v \in SomeLeaves, w \in SomeLeaves}
    \cup {Dict2(kB, w, kEmpty, Dict1(kB, v)) : v \in SomeLeaves, w \in SomeLeaves}

\* Source identifiers: a plain name, a name in a directory, and the name the
\* second is stored under.
SrcE    == <<"e">>
SrcDirE == <<"d", "/", "e">>
SrcD__E == <<"d", "_", "_", "e">>
Sources == {SrcE, SrcDirE, SrcD__E}

\* The clock after i ticks of half a second: 2024-01-01T00:00:00 UTC onwards,
\* as datetime.now(timezone.utc) returns it (tz-aware, offset 0).
Tick(i) == DateTime(2024, 1, 1, 0, 0, i \div 2, (i % 2) * 500000, <<0>>)

\* Explicit timestamp arguments: none, a naive one, an aware UTC one with a
\* sub-second part, and an aware one at UTC+01:00.
TimestampArgs ==
    { <<>>,
      <<DateTime(2024, 1, 1, 0, 0, 7, 0, <<>>)>>,
      <<DateTime(2024, 1, 1, 0, 0, 7, 250000, <<0>>)>>,
      <<DateTime(2024, 1, 1, 1, 0, 7, 0, <<60>>)>> }

-----------------------------------------------------------------------------
(* One isolated call of compute_diff *)

\* The files after Changelog(path) and VersionCache(cache_dir) were built on
\* an empty directory, and no call made yet.
FilesInit ==
    /\ logFile = EmptyLog
    /\ cacheDir = <<>>
    /\ clock = 0
    /\ steps = 0
    /\ call = NoCall
    /\ ret = NoCall
    /\ appended = <<>>
    /\ saves = <<>>
    /\ segments = <<>>
    /\ path_str = <<>>
    /\ parsed = NotParsed
    /\ summary = NoSummary

InitDiff ==
    /\ FilesInit
    /\ pc = "start"
    /\ now = Tick(0)
    /\ changes = <<>>
    /\ \/ /\ old_data \in DiffDocs
          /\ new_data \in DiffDocs
          /\ source_file = SrcE
          /\ timestamp = <<>>
       \/ /\ old_data \in SomeLeaves \cup {PyNone, Dict1(kA, PyInt(1))}
          /\ new_data \in {Dict1(kA, PyInt(1)), Dict2(kA, PyStr(<<"x">>), kB, PyNaN)}
          /\ source_file \in Sources
          /\ timestamp \in TimestampArgs

ComputeDiffCall ==
    /\ pc = "start"
    /\ changes' = compute_diff(old_data, new_data, source_file, timestamp, now)
    /\ pc' = "done"
    /\ UNCHANGED <<logFile, cacheDir, clock, steps, call, ret, appended, saves,
                   old_data, new_data, source_file, timestamp, now,
                   segments, path_str, parsed, summary>>

NextDiff == ComputeDiffCall

SpecDiff == InitDiff /\ [][NextDiff]_vars

-----------------------------------------------------------------------------
(* One isolated call of _parse_path *)

\* The longest segment sequence rendered, and the longest path text parsed.
MaxSegments == 3
MaxPathLen  == 4

\* Segments: the keys "a", "b", "0", "" and "a.b", the indices 0, 1 and 10.
SomeSegments ==
    {Key(<<"a">>), Key(<<"b">>), Key(<<"0">>), Key(<<>>), Key(<<"a", ".", "b">>),
     Index(0), Index(1), Index(10)}
SegmentSeqs ==
    UNION {[1..n -> SomeSegments] : n \in 0..MaxSegments}

\* Path texts: every text of the characters below up to the length bound.
PathChars == {"a", ".", "[", "]", "0", "1", "-"}
PathTexts == UNION {[1..n -> PathChars] : n \in 0..MaxPathLen}

\* The path is rendered from a segment sequence, or is any text.
InitPath ==
    /\ logFile = EmptyLog /\ cacheDir = <<>> /\ clock = 0 /\ steps = 0
    /\ call = NoCall /\ ret = NoCall /\ appended = <<>> /\ saves = <<>>
    /\ pc = "start"
    /\ old_data = PyNone /\ new_data = PyNone /\ source_file = SrcE
    /\ timestamp = <<>> /\ now = Tick(0) /\ changes = <<>>
    /\ parsed = NotParsed
    /\ summary = NoSummary
    /\ \/ /\ segments \in SegmentSeqs
          /\ path_str = render(segments)
       \/ /\ segments = <<>>
          /\ path_str \in PathTexts

ParsePathCall ==
    /\ pc = "start"
    /\ parsed' = _parse_path(path_str)
    /\ pc' = "done"
    /\ UNCHANGED <<logFile, cacheDir, clock, steps, call, ret, appended, saves,
                   old_data, new_data, source_file, timestamp, now, changes,
                   segments, path_str, summary>>

NextPath == ParsePathCall

SpecPath == InitPath /\ [][NextPath]_vars

-----------------------------------------------------------------------------
(* One isolated call of get_node_value *)

\* Documents looked into: those of DiffDocs, and {a: {"": 1}}.
NodeDocs == DiffDocs \cup {Dict1(kA, Dict1(kEmpty, PyInt(1)))}

\* Segment sequences of paths asked for beside the paths of the document's
\* own leaves: keys a, b and c, indices 0, 1 and 2, up to two segments.
NodeSegments == {Key(kA), Key(kB), Key(<<"c">>), Index(0), Index(1), Index(2)}
NodeSegmentSeqs == UNION {[1..n -> NodeSegments] : n \in 1..2}

\* The path is one of flatten_to_nodes(data), or the empty path, or is
\* rendered from a segment sequence.
InitNode ==
    /\ logFile = EmptyLog /\ cacheDir = <<>> /\ clock = 0 /\ steps = 0
    /\ call = NoCall /\ ret = NoCall /\ appended = <<>> /\ saves = <<>>
    /\ parsed = NotParsed
    /\ summary = NoSummary
    /\ pc = "start"
    /\ old_data = PyNone /\ source_file = SrcE
    /\ timestamp = <<>> /\ now = Tick(0) /\ changes = <<>>
    /\ new_data \in NodeDocs
    /\ \E segs \in {<<>>} \cup NodeSegmentSeqs, p \in {<<>>} \cup DOMAIN flatten_to_nodes(new_data, <<>>) :
          /\ segments = segs
          /\ path_str = IF segs # <<>> THEN render(segs) ELSE p

GetNodeValueCall ==
    /\ pc = "start"
    /\ ret' = [op |-> "get_node_value", args |-> <<new_data, path_str>>,
               result |-> get_node_value(new_data, path_str)]
    /\ pc' = "done"
    /\ UNCHANGED <<logFile, cacheDir, clock, steps, call, appended, saves,
                   old_data, new_data, source_file, timestamp, now, changes,
                   segments, path_str, parsed, summary>>

NextNode == GetNodeValueCall

SpecNode == InitNode /\ [][NextNode]_vars

-----------------------------------------------------------------------------
(* The engine in use: ingestion, direct use of the stores, reads *)

\* The number of mutating calls of one run.
MaxSteps == 2

DocV1  == Dict1(kA, PyInt(1))
DocV2  == Dict2(kA, PyStr(<<"x">>), kB, EmptyList)
DocNaN == Dict1(kA, PyNaN)
\* Documents ingested: {a: 1}, {a: "x", b: []}, {a: .nan}
IngestDocs == {DocV1, DocV2, DocNaN}

\* Record lists handed to Changelog.append directly: none, one added record,
\* a modified and a removed record.
AppendInputs ==
    { <<>>,
      compute_diff(PyNone, DocV1, SrcE, <<DateTime(2024, 1, 1, 0, 0, 7, 0, <<>>)>>, Tick(0)),
      compute_diff(DocV2, DocV1, SrcDirE, <<>>, Tick(0)) }

\* diff_and_log(source_file, new_data, changelog, version_cache), called as
\* api.py calls it, without a timestamp; appending says how the append goes,
\* outcome how the write of the cache goes.  The call record keeps the
\* arguments, the old document read, the changes returned (none when the
\* error of append reached the caller, raised), the log file, cache
\* directory and clock before the call, in follows the document of the call
\* before when that was a diff_and_log of the same source whose save
\* succeeded, and in prev the call before when that was a diff_and_log.
DiffAndLog(source, new, appending, outcome) ==
    LET done == diff_and_log(cacheDir, logFile, source, new, Tick(clock), appending, outcome)
    IN  /\ steps < MaxSteps
        /\ logFile' = done.file
        /\ appended' = IF done.append_called THEN appended \o done.changes ELSE appended
        /\ cacheDir' = done.dir
        /\ saves' = IF done.saved
                    THEN Append(saves, [source |-> source, doc |-> new, outcome |-> outcome])
                    ELSE saves
        /\ clock' = clock + 1
        /\ steps' = steps + 1
        /\ call' = [op |-> "diff_and_log", source |-> source, doc |-> new,
                    appending |-> appending, outcome |-> outcome, old |-> done.old,
                    result |-> IF done.raised THEN <<>> ELSE done.changes,
                    computed |-> done.changes,
                    append_called |-> done.append_called,
                    raised |-> done.raised,
                    file_before |-> logFile, at |-> clock,
                    cache_before |-> cacheDir,
                    follows |-> IF /\ call.op = "diff_and_log"
                                   /\ call.source = source
                                   /\ call.outcome = "ok"
                                   /\ ~call.raised
                                THEN <<call.doc>> ELSE <<>>,
                    prev |-> IF call.op = "diff_and_log"
                             THEN <<[source |-> call.source, doc |-> call.doc,
                                     outcome |-> call.outcome, result |-> call.result,
                                     computed |-> call.computed, raised |-> call.raised,
                                     cache_before |-> call.cache_before]>>
                             ELSE <<>>]
        /\ ret' = NoCall
        /\ UNCHANGED <<pc, old_data, new_data, source_file, timestamp, now, changes,
                   segments, path_str, parsed, summary>>

\* changelog.append(records), called directly; it returns len(records).
AppendCall(records) ==
    /\ steps < MaxSteps
    /\ logFile' = append_file(logFile, records)
    /\ appended' = appended \o records
    /\ steps' = steps + 1
    /\ call' = [op |-> "append", records |-> records, result |-> Len(records),
                file_before |-> logFile]
    /\ ret' = NoCall
    /\ UNCHANGED <<cacheDir, clock, saves,
                   pc, old_data, new_data, source_file, timestamp, now, changes,
                   segments, path_str, parsed, summary>>

\* version_cache.save_current(source_file, data), called directly.
SaveCurrentCall(source, data, outcome) ==
    /\ steps < MaxSteps
    /\ cacheDir' = save_file(cacheDir, source, data, outcome)
    /\ saves' = Append(saves, [source |-> source, doc |-> data, outcome |-> outcome])
    /\ steps' = steps + 1
    /\ call' = [op |-> "save_current", source |-> source, doc |-> data,
                outcome |-> outcome, file_before |-> logFile,
                cache_before |-> cacheDir]
    /\ ret' = NoCall
    /\ UNCHANGED <<logFile, clock, appended,
                   pc, old_data, new_data, source_file, timestamp, now, changes,
                   segments, path_str, parsed, summary>>

\* changelog.read_all()
ReadAllCall ==
    /\ ret' = [op |-> "read_all", result |-> read_all(logFile)]
    /\ UNCHANGED <<logFile, cacheDir, clock, steps, call, appended, saves,
                   pc, old_data, new_data, source_file, timestamp, now, changes,
                   segments, path_str, parsed, summary>>

\* version_cache.get_previous(source_file)
GetPreviousCall(source) ==
    /\ ret' = [op |-> "get_previous", source |-> source,
               result |-> get_previous(cacheDir, source)]
    /\ UNCHANGED <<logFile, cacheDir, clock, steps, call, appended, saves,
                   pc, old_data, new_data, source_file, timestamp, now, changes,
                   segments, path_str, parsed, summary>>

Init ==
    /\ FilesInit
    /\ pc = "idle"
    /\ old_data = PyNone
    /\ new_data = PyNone
    /\ source_file = SrcE
    /\ timestamp = <<>>
    /\ now = Tick(0)
    /\ changes = <<>>

\* Ingestion: documents are ingested through diff_and_log, records are also
\* appended to the changelog directly, and both stores are read.
Next ==
    \/ \E source \in Sources, new \in IngestDocs, outcome \in SaveOutcomes :
           DiffAndLog(source, new, "ok", outcome)
    \/ \E records \in AppendInputs : AppendCall(records)
    \/ ReadAllCall
    \/ \E source \in Sources : GetPreviousCall(source)

Spec == Init /\ [][Next]_vars

\* The version cache used on its own.
NextCache ==
    \/ \E source \in Sources, data \in IngestDocs, outcome \in SaveOutcomes :
           SaveCurrentCall(source, data, outcome)
    \/ \E source \in Sources : GetPreviousCall(source)

SpecCache == Init /\ [][NextCache]_vars

\* Several sources sharing one cache: each is ingested through diff_and_log
\* or saved directly.
SharedDocs == {DocV1, DocV2}

NextShared ==
    \/ \E source \in Sources, new \in SharedDocs, outcome \in SaveOutcomes :
           DiffAndLog(source, new, "ok", outcome)
    \/ \E source \in Sources, data \in SharedDocs, outcome \in SaveOutcomes :
           SaveCurrentCall(source, data, outcome)

SpecShared == Init /\ [][NextShared]_vars

-----------------------------------------------------------------------------
(* Ingestion of successive versions of documents *)

DocTrue == Dict1(kA, PyBool(TRUE))
\* Versions ingested: {a: 1}, {a: "x", b: []}, {a: True}, {a: .nan}
VersionDocs == {DocV1, DocV2, DocTrue, DocNaN}

\* Two sources stored under different cache files.
VersionSources == {SrcE, SrcDirE}

\* Every append completes; the write of the cache may fail.
NextVersions ==
    \E source \in VersionSources, new \in VersionDocs, outcome \in SaveOutcomes :
        DiffAndLog(source, new, "ok", outcome)

SpecVersions == Init /\ [][NextVersions]_vars

\* One source; the append may fail, and so may the write of the cache.
NextOrder ==
    \E new \in IngestDocs, appending \in AppendOutcomes, outcome \in SaveOutcomes :
        DiffAndLog(SrcE, new, appending, outcome)

SpecOrder == Init /\ [][NextOrder]_vars

-----------------------------------------------------------------------------
(* The changelog file in use: appends, what else happens to the file, reads *)

kAB   == <<"a", "b">>
DocV3 == Dict2(kAB, PyInt(1), kA, Dict1(kB, PyStr(<<"x">>)))

\* Record lists appended: those of AppendInputs, and the diff of {a: 1}
\* against {ab: 1, a: {b: "x"}} half a second into the run: a removed, a.b
\* and ab added.
LogInputs == AppendInputs \cup {compute_diff(DocV1, DocV3, SrcE, <<>>, Tick(1))}

\* Arguments of the read views.
Limits      == {0 - 1, 0, 1, 2, 5}
Prefixes    == {<<>>, kA, <<"a", ".">>, kB}
ChangeTypes == {ADDED.s, MODIFIED.s, REMOVED.s}
DateRanges  ==
    { <<<<>>, <<>>>>,
      <<<<Tick(1)>>, <<>>>>,
      <<<<>>, <<Tick(1)>>>>,
      <<<<Tick(1)>>, <<DateTime(2024, 1, 1, 0, 0, 7, 0, <<>>)>>>> }

\* Something else than append writes to the end of the file: a blank line,
\* a line that is not JSON, or text that is not JSON and has no newline yet
\* (a write cut short).  Written after such text, it continues that line.
ForeignWrite(kind) ==
    LET n    == Len(logFile.lines)
        open == n > 0 /\ logFile.lines[n].kind = "torn"
    IN  /\ steps < MaxSteps
        /\ logFile.exists
        /\ logFile' =
              [exists |-> TRUE,
               lines  |-> IF open
                          THEN SubSeq(logFile.lines, 1, n - 1)
                               \o <<Foreign(IF kind = "torn" THEN "torn" ELSE "garbage")>>
                          ELSE Append(logFile.lines, Foreign(kind))]
        /\ steps' = steps + 1
        /\ call' = [op |-> "foreign_write", kind |-> kind, file_before |-> logFile]
        /\ ret' = NoCall
        /\ UNCHANGED <<cacheDir, clock, appended, saves,
                       pc, old_data, new_data, source_file, timestamp, now, changes,
                       segments, path_str, parsed, summary>>

\* The changelog file is removed after the Changelog object was built.
RemoveFile ==
    /\ steps < MaxSteps
    /\ logFile.exists
    /\ logFile' = [exists |-> FALSE, lines |-> <<>>]
    /\ steps' = steps + 1
    /\ call' = [op |-> "remove", file_before |-> logFile]
    /\ ret' = NoCall
    /\ UNCHANGED <<cacheDir, clock, appended, saves,
                   pc, old_data, new_data, source_file, timestamp, now, changes,
                   segments, path_str, parsed, summary>>

\* A read view is called; ret keeps its name, its arguments and its result.
Returned(op, args, result) ==
    /\ ret' = [op |-> op, args |-> args, result |-> result]
    /\ UNCHANGED <<logFile, cacheDir, clock, steps, call, appended, saves,
                   pc, old_data, new_data, source_file, timestamp, now, changes,
                   segments, path_str, parsed, summary>>

ReadRecentCall(limit) ==
    Returned("read_recent", <<limit>>, read_recent(logFile, limit))

ReadBySourceCall(source) ==
    Returned("read_by_source", <<source>>, read_by_source(logFile, source))

ReadByPathCall(prefix) ==
    Returned("read_by_path", <<prefix>>, read_by_path(logFile, prefix))

ReadByDateRangeCall(start, end) ==
    Returned("read_by_date_range", <<start, end>>, read_by_date_range(logFile, start, end))

ReadByTypeCall(change_type) ==
    Returned("read_by_type", <<change_type>>, read_by_type(logFile, change_type))

NextLog ==
    \/ \E records \in LogInputs : AppendCall(records)
    \/ \E kind \in ForeignKinds : ForeignWrite(kind)
    \/ RemoveFile
    \/ ReadAllCall
    \/ \E limit \in Limits : ReadRecentCall(limit)
    \/ \E source \in Sources : ReadBySourceCall(source)
    \/ \E prefix \in Prefixes : ReadByPathCall(prefix)
    \/ \E range \in DateRanges : ReadByDateRangeCall(range[1], range[2])
    \/ \E change_type \in ChangeTypes : ReadByTypeCall(change_type)

SpecLog == Init /\ [][NextLog]_vars

-----------------------------------------------------------------------------
(* The proposal writer in use *)

LearnX  == Learning("x", "c1", Absent)
LearnX2 == Learning("x", "c2", Present(<<"e0">>))
LearnY  == Learning("y", "c1", Present(<<"e1">>))
DecideD  == Decision("d", "r1", Absent)
DecideD2 == Decision("d", "r2", Present("2024-01-01"))
LinkL  == Link("l", "informs")
LinkL2 == Link("l", "depends_on")
LinkM  == Link("m", "informs")

\* Proposals: one item for each list; the same key twice in each list; other
\* keys; nothing to add; the target id missing; a target that is not there.
Proposals ==
    { Proposal("s1", "e1", <<LearnX>>, <<DecideD>>, <<"q">>, <<LinkL>>),
      Proposal("s1", "e1", <<LearnX, LearnX2>>, <<DecideD, DecideD2>>, <<"q", "q">>,
               <<LinkL, LinkL2>>),
      Proposal("s1", "e1", <<LearnY, LearnX>>, <<>>, <<"p">>, <<LinkM, LinkL>>),
      Proposal("s1", "e1", <<>>, <<>>, <<>>, <<>>),
      Proposal("", "e1", <<LearnX>>, <<>>, <<>>, <<>>),
      Proposal("s2", "e1", <<LearnX>>, <<>>, <<>>, <<>>) }

\* Summary files to start from: one without lists, one holding an item in
\* each list.
Summaries ==
    { SummaryDoc("s1", Absent, Absent, Absent, Absent),
      SummaryDoc("s1", Present(<<LearnX2>>), Present(<<DecideD2>>), Present(<<"q">>),
                 Present(<<LinkL2>>)) }

\* apply_update(proposal, content_dir).  The call record keeps the proposal,
\* the file before, the result, whether the file was opened for writing, and
\* in again whether the call before was a successful apply_update of the
\* same proposal.
ApplyUpdate(proposal, outcome) ==
    LET applying == apply_update(proposal, summary, outcome)
    IN  /\ steps < MaxSteps
        /\ summary' = applying.file
        /\ steps' = steps + 1
        /\ call' = [op |-> "apply_update", proposal |-> proposal, outcome |-> outcome,
                    before |-> summary, result |-> applying.result,
                    wrote |-> applying.wrote,
                    again |-> /\ call.op = "apply_update"
                              /\ call.proposal = proposal
                              /\ call.result.success]
        /\ ret' = NoCall
        /\ UNCHANGED <<logFile, cacheDir, clock, appended, saves,
                       pc, old_data, new_data, source_file, timestamp, now, changes,
                       segments, path_str, parsed>>

InitWriter ==
    /\ logFile = EmptyLog /\ cacheDir = <<>> /\ clock = 0 /\ steps = 0
    /\ call = NoCall /\ ret = NoCall /\ appended = <<>> /\ saves = <<>>
    /\ pc = "idle"
    /\ old_data = PyNone /\ new_data = PyNone /\ source_file = SrcE
    /\ timestamp = <<>> /\ now = Tick(0) /\ changes = <<>>
    /\ segments = <<>> /\ path_str = <<>> /\ parsed = NotParsed
    /\ summary \in Summaries

NextWriter ==
    \E proposal \in Proposals, outcome \in SummaryOutcomes : ApplyUpdate(proposal, outcome)

SpecWriter == InitWriter /\ [][NextWriter]_vars

-----------------------------------------------------------------------------
(* Restarts: the stores are built again on the files of an earlier run *)

\* Changelog(path) and VersionCache(cache_dir) are constructed, as api.py
\* does at startup: the changelog file is ensured, the cache directory is
\* made if missing, and the files in it are not touched.
Construct ==
    /\ steps < MaxSteps
    /\ logFile' = _ensure_file(logFile)
    /\ steps' = steps + 1
    /\ call' = [op |-> "construct", file_before |-> logFile, cache_before |-> cacheDir]
    /\ ret' = NoCall
    /\ UNCHANGED <<cacheDir, clock, appended, saves,
                   pc, old_data, new_data, source_file, timestamp, now, changes,
                   segments, path_str, parsed, summary>>

\* A document is at hand to look nodes up in, at the path of one of its
\* leaves.
InitRestart ==
    /\ logFile = EmptyLog /\ cacheDir = <<>> /\ clock = 0 /\ steps = 0
    /\ call = NoCall /\ ret = NoCall /\ appended = <<>> /\ saves = <<>>
    /\ parsed = NotParsed /\ summary = NoSummary
    /\ pc = "start"
    /\ segments = <<>>
    /\ path_str = <<"a", ".", "b">>
    /\ old_data = PyNone
    /\ new_data = DocV3
    /\ source_file = SrcE
    /\ timestamp = <<>>
    /\ now = Tick(0)
    /\ changes = <<>>

\* Appends and saves, removal of the changelog file, restarts, and every
\* read operation.
NextRestart ==
    \/ \E records \in LogInputs : AppendCall(records)
    \/ \E outcome \in SaveOutcomes : SaveCurrentCall(SrcE, DocV1, outcome)
    \/ RemoveFile
    \/ Construct
    \/ ReadAllCall
    \/ ReadRecentCall(1)
    \/ ReadBySourceCall(SrcE)
    \/ ReadByPathCall(kA)
    \/ ReadByDateRangeCall(<<Tick(1)>>, <<>>)
    \/ ReadByTypeCall(ADDED.s)
    \/ GetPreviousCall(SrcE)
    \/ GetNodeValueCall

SpecRestart == InitRestart /\ [][NextRestart]_vars

-----------------------------------------------------------------------------
(* Properties of compute_diff *)

Done == pc = "done"

\* flatten(old) and flatten(new) of the call: no old document flattens to the
\* empty mapping.
FlatOld == IF old_data = PyNone THEN <<>> ELSE flatten_to_nodes(old_data, <<>>)
FlatNew == flatten_to_nodes(new_data, <<>>)

\* The positions of the returned list whose record is at path p.
RecordsAt(p) == {i \in DOMAIN changes : changes[i].path = PyStr(p)}

\* All orderings of a sequence.
RECURSIVE Perms(_)
Perms(seq) ==
    IF seq = <<>> THEN {<<>>}
    ELSE UNION {{<<seq[i]>> \o rest :
                    rest \in Perms([j \in 1..(Len(seq) - 1) |->
                                       IF j < i THEN seq[j] ELSE seq[j + 1]])} :
                i \in DOMAIN seq}

\* The sequences whose i-th element is drawn from sets[i].
RECURSIVE Choices(_)
Choices(sets) ==
    IF sets = <<>> THEN {<<>>}
    ELSE {<<x>> \o rest : x \in Head(sets), rest \in Choices(Tail(sets))}

\* The documents that differ from d only in the insertion order of the keys
\* of its mappings, at any depth.
RECURSIVE Reorderings(_)
Reorderings(d) ==
    IF ~IsContainer(d) \/ d.c = <<>> THEN {d}
    ELSE LET kids == Choices([i \in DOMAIN d.c |->
                         {Entry(d.c[i].k, e) : e \in Reorderings(d.c[i].e)}])
         IN  IF d.t = "list" THEN {[d EXCEPT !.c = ks] : ks \in kids}
             ELSE UNION {{[d EXCEPT !.c = q] : q \in Perms(ks)} : ks \in kids}

\* Every key of every mapping in d is non-empty and has none of . [ ]
RECURSIVE PlainKeys(_)
PlainKeys(d) ==
    \A i \in DOMAIN d.c :
        /\ d.t = "dict" =>
              /\ d.c[i].k # <<>>
              /\ \A j \in DOMAIN d.c[i].k : d.c[i].k[j] \notin {".", "[", "]"}
        /\ PlainKeys(d.c[i].e)

\* C2 (as claimed): compute_diff(d, d, src) returns the empty list for every
\* document d.
C2_Reflexive == (Done /\ old_data = new_data) => changes = <<>>

\* C3: for every path of flatten(new) that is not in flatten(old) the result
\* holds exactly one record, an 'added' one carrying value = flatten(new)[p];
\* for every path of flatten(old) not in flatten(new) exactly one record, a
\* 'removed' one carrying old = flatten(old)[p]; no other path gets an added
\* or removed record, and with no old document the result is one 'added'
\* record per leaf of new and nothing else.
C3_AddedRemovedComplete ==
    Done =>
        /\ \A p \in DOMAIN FlatNew \ DOMAIN FlatOld :
              /\ Cardinality(RecordsAt(p)) = 1
              /\ \A i \in RecordsAt(p) :
                    /\ changes[i].type = ADDED
                    /\ "value" \in DOMAIN changes[i]
                    /\ changes[i].value = FlatNew[p]
        /\ \A p \in DOMAIN FlatOld \ DOMAIN FlatNew :
              /\ Cardinality(RecordsAt(p)) = 1
              /\ \A i \in RecordsAt(p) :
                    /\ changes[i].type = REMOVED
                    /\ "old" \in DOMAIN changes[i]
                    /\ changes[i].old = FlatOld[p]
        /\ \A i \in DOMAIN changes :
              /\ changes[i].type = ADDED =>
                    changes[i].path.s \in DOMAIN FlatNew \ DOMAIN FlatOld
              /\ changes[i].type = REMOVED =>
                    changes[i].path.s \in DOMAIN FlatOld \ DOMAIN FlatNew
        /\ old_data = PyNone =>
              /\ Len(changes) = Cardinality(DOMAIN FlatNew)
              /\ \A i \in DOMAIN changes : changes[i].type = ADDED

\* C3's case: a call with an old document that returned an added and a removed record.
C3_Witness ==
    /\ Done /\ old_data # PyNone
    /\ \E i, j \in DOMAIN changes : changes[i].type = ADDED /\ changes[j].type = REMOVED

\* C4: a path of both flattened snapshots gets a record if and only if its
\* two values are unequal (Python ==), and that record is a 'modified' one
\* carrying old = flatten(old)[p] and new = flatten(new)[p]; a 'modified'
\* record is returned for no other path.
C4_ModifiedIffUnequal ==
    Done =>
        /\ \A p \in DOMAIN FlatOld \cap DOMAIN FlatNew :
              /\ (RecordsAt(p) # {}) <=> ~PyEq(FlatOld[p], FlatNew[p])
              /\ \A i \in RecordsAt(p) :
                    /\ changes[i].type = MODIFIED
                    /\ {"old", "new"} \subseteq DOMAIN changes[i]
                    /\ changes[i].old = FlatOld[p]
                    /\ changes[i].new = FlatNew[p]
        /\ \A i \in DOMAIN changes :
              changes[i].type = MODIFIED =>
                  changes[i].path.s \in DOMAIN FlatOld \cap DOMAIN FlatNew

\* C4's case: two common paths, one modified and one with equal values and no record.
C4_Witness ==
    /\ Done
    /\ \E p, q \in DOMAIN FlatOld \cap DOMAIN FlatNew :
          /\ RecordsAt(p) # {} /\ FlatOld[p] # FlatNew[p]
          /\ RecordsAt(q) = {} /\ FlatOld[q] = FlatNew[q]

\* The returned list is strictly ascending by path in str order.
StrictlyAscending ==
    \A i, j \in DOMAIN changes : i < j => StrLess(changes[i].path.s, changes[j].path.s)

\* The call returns the same list for every insertion order of the keys of
\* the mappings of its two documents.
OrderIndependent ==
    \A o \in Reorderings(old_data), n \in Reorderings(new_data) :
        compute_diff(o, n, source_file, timestamp, now) = changes

C6_RecordShape ==
    Done =>
        \A i \in DOMAIN changes :
            LET r == changes[i] IN
            /\ r.type \in {ADDED, MODIFIED, REMOVED}
            /\ ("value" \in DOMAIN r) <=> (r.type = ADDED)
            /\ ("old" \in DOMAIN r) <=> (r.type \in {REMOVED, MODIFIED})
            /\ ("new" \in DOMAIN r) <=> (r.type = MODIFIED)
            /\ {"timestamp", "source", "type", "path"} \subseteq DOMAIN r
            /\ r.source = PyStr(source_file)
            /\ \A j \in DOMAIN changes : changes[j].timestamp = r.timestamp

\* C6's case: one call that returned an added, a modified and a removed record.
C6_Witness ==
    /\ Done
    /\ \E i, j, k \in DOMAIN changes :
          changes[i].type = ADDED /\ changes[j].type = MODIFIED /\ changes[k].type = REMOVED

-----------------------------------------------------------------------------
(* Properties of the engine in use *)

IsPrefix(a, b) == Len(a) <= Len(b) /\ SubSeq(b, 1, Len(a)) = a

Ingested == call.op = "diff_and_log"

\* The call repeats the call before it: diff_and_log of the same source and
\* the same document, after a save that succeeded.
Repeated == Ingested /\ call.follows = <<call.doc>>

\* C1 (as claimed): when diff_and_log(source, d, ..) is called twice in a row
\* and the first call's save succeeded, the second call returns [] and leaves
\* the changelog as it was.
C1_SecondCallEmpty ==
    Repeated => (call.result = <<>> /\ logFile = call.file_before)

\* C7: read_all() returns the concatenation of all record lists appended so
\* far, in call order and in within-call order, with their content; what
\* read_all returned before the latest call is a prefix of what it returns
\* after it; and append returns the number of records it was given.
C7_AppendOnly ==
    /\ read_all(logFile) = appended
    /\ call.op \in {"append", "diff_and_log"} =>
          IsPrefix(read_all(call.file_before), read_all(logFile))
    /\ call.op = "append" => call.result = Len(call.records)

\* C7's case: a direct append of two records to a log that diff_and_log had
\* written to before.
C7_Witness ==
    /\ call.op = "append" /\ Len(call.records) = 2
    /\ \E i \in DOMAIN appended : appended[i].type = ADDED
    /\ Len(read_all(logFile)) = Len(read_all(call.file_before)) + 2

\* C8: after diff_and_log, read_all() is read_all() before the call followed
\* by the returned records in the returned order; when the returned list is
\* empty, append was not invoked and the changelog file is unchanged.
C8_LogsWhatItReturns ==
    Ingested =>
        /\ read_all(logFile) = read_all(call.file_before) \o call.result
        /\ call.result = <<>> => (~call.append_called /\ logFile = call.file_before)
        /\ call.result # <<>> => call.append_called

\* C8's case: a diff_and_log that returned two records and appended them to
\* a log that was not empty.
C8_Witness ==
    /\ Ingested /\ Len(call.result) = 2
    /\ read_all(call.file_before) # <<>>

\* C9: after diff_and_log(source, d, ..) with a successful save,
\* get_previous(source) is d, whether changes were found or not; and a
\* diff_and_log that follows one of the same source with a successful save
\* is computed against the document of that call.
C9_BaselineUpdated ==
    /\ (Ingested /\ call.outcome = "ok") =>
          get_previous(cacheDir, call.source) = call.doc
    /\ (Ingested /\ call.follows # <<>>) =>
          /\ call.old = call.follows[1]
          /\ call.result =
                compute_diff(call.follows[1], call.doc, call.source, <<>>, Tick(call.at))

\* C9's case: an update of a source, saved, that found changes against the
\* document ingested before.
C9_Witness ==
    /\ Ingested /\ call.outcome = "ok"
    /\ call.follows # <<>> /\ call.follows[1] # call.doc
    /\ call.result # <<>>

-----------------------------------------------------------------------------
(* Properties of the version cache *)

AllSavesOk == \A i \in DOMAIN saves : saves[i].outcome = "ok"

\* The save_current calls made for the source itself, and those made for a
\* source stored under the same file name.
SavesOf(source)     == {i \in DOMAIN saves : saves[i].source = source}
SavesUnder(source)  == {i \in DOMAIN saves : _cache_path(saves[i].source) = _cache_path(source)}
Latest(indices)     == CHOOSE i \in indices : \A j \in indices : j <= i

\* C10 (as claimed): after any sequence of successful save_current calls,
\* get_previous(source) returns the document of the most recent save_current
\* for that source.
C10_LastWriteWins ==
    AllSavesOk =>
        \A source \in Sources :
            SavesOf(source) # {} =>
                get_previous(cacheDir, source) = saves[Latest(SavesOf(source))].doc

\* C10 (amended): after any sequence of successful save_current calls,
\* get_previous(source) returns the document of the most recent save_current
\* among the calls for that source and for the sources stored under the same
\* cache file name; no earlier document is returned.
C10_LastWriteWinsPerCacheFile ==
    AllSavesOk =>
        \A source \in Sources :
            SavesUnder(source) # {} =>
                get_previous(cacheDir, source) = saves[Latest(SavesUnder(source))].doc

\* C10's case: get_previous returned the second of two documents saved for
\* one source.
C10_Witness ==
    /\ AllSavesOk /\ Len(saves) = 2
    /\ saves[1].source = saves[2].source /\ saves[1].doc # saves[2].doc
    /\ ret.op = "get_previous" /\ ret.source = saves[2].source
    /\ ret.result = saves[2].doc

\* The call wrote to the cache on behalf of a source: save_current, directly
\* or inside diff_and_log.
Saved == call.op \in {"save_current", "diff_and_log"}

\* The save_current calls made before the latest call, and among them those
\* stored under the cache file name of the source: two sources share a name
\* when they are the same text once "/" and "\\" are replaced by "__".
PriorSaves == SubSeq(saves, 1, Len(saves) - 1)
SameCacheName(A, B) == replace_separators(A) = replace_separators(B)
PriorUnder(source) ==
    {i \in DOMAIN PriorSaves : SameCacheName(saves[i].source, source)}

\* C11 (as claimed): for any two distinct sources A and B, save_current(A, D)
\* and diff_and_log(A, ..) leave get_previous(B) unchanged.
C11_IsolatedPerSource ==
    Saved =>
        \A B \in Sources \ {call.source} :
            get_previous(cacheDir, B) = get_previous(call.cache_before, B)

\* C11 (amended): for any two sources A and B stored under different cache
\* file names, save_current(A, D) and diff_and_log(A, ..) leave
\* get_previous(B) unchanged; and a diff_and_log for B, when every earlier
\* save under B's cache file name was made for B and succeeded, is computed
\* against the document of the last of them (against none when there is none).
C11_IsolatedPerCacheFile ==
    /\ Saved =>
          \A B \in Sources :
              ~SameCacheName(B, call.source) =>
                  get_previous(cacheDir, B) = get_previous(call.cache_before, B)
    /\ (/\ Ingested
        /\ \A i \in PriorUnder(call.source) :
              saves[i].source = call.source /\ saves[i].outcome = "ok") =>
          call.old = IF PriorUnder(call.source) = {} THEN PyNone
                     ELSE saves[Latest(PriorUnder(call.source))].doc

\* C11's case: a source was saved, then a sibling-like source stored under
\* another file name was ingested and diffed against nothing, and the first
\* source's entry is still what was saved.
C11_Witness ==
    /\ Ingested /\ call.source = SrcDirE /\ call.outcome = "ok"
    /\ Len(saves) = 2 /\ saves[1].source = SrcE /\ saves[1].outcome = "ok"
    /\ saves[1].doc # call.doc
    /\ call.old = PyNone
    /\ get_previous(cacheDir, SrcE) = saves[1].doc

\* A change record without its timestamp: its path, type, source and values.
Content(record) == [f \in DOMAIN record \ {"timestamp"} |-> record[f]]
Contents(records) == [i \in DOMAIN records |-> Content(records[i])]

\* The call is a diff_and_log of the source and document of the diff_and_log
\* before it, whose save failed.
RetriedAfterFailedSave ==
    /\ Ingested /\ call.prev # <<>>
    /\ call.prev[1].source = call.source /\ call.prev[1].doc = call.doc
    /\ call.prev[1].outcome # "ok"

\* C12 (as claimed): when save_current fails during diff_and_log(source, d, ..)
\* the cached baseline keeps its previous content; the next
\* diff_and_log(source, d, ..) returns the same paths, types and values again
\* and appends them to the changelog a second time.
C12_FailedSaveKeepsBaseline ==
    /\ (Ingested /\ call.outcome # "ok") =>
          get_previous(cacheDir, call.source) = get_previous(call.cache_before, call.source)
    /\ RetriedAfterFailedSave =>
          /\ Contents(call.result) = Contents(call.prev[1].result)
          /\ read_all(logFile) = read_all(call.file_before) \o call.result

\* The source has no cache file in the directory, or one that does not load.
NeverSaved(dir, source) == _cache_path(source) \notin DOMAIN dir
Unreadable(dir, source) ==
    /\ _cache_path(source) \in DOMAIN dir
    /\ dir[_cache_path(source)].kind # "document"

\* The records are one added record for every leaf of the document, carrying
\* the leaf's value, and nothing else.
EveryLeafAdded(records, doc) ==
    LET flat == flatten_to_nodes(doc, <<>>)
    IN  /\ Len(records) = Cardinality(DOMAIN flat)
        /\ \A p \in DOMAIN flat :
              \E i \in DOMAIN records :
                  /\ records[i].path = PyStr(p)
                  /\ records[i].type = ADDED
                  /\ records[i].value = flat[p]

\* C13: get_previous returns none when no entry was saved for the source and
\* when the stored entry cannot be read or parsed; diff_and_log then diffs
\* against none and reports every leaf of the document as added.
C13_NoBaselineIsNone ==
    /\ (/\ ret.op = "get_previous"
        /\ NeverSaved(cacheDir, ret.source) \/ Unreadable(cacheDir, ret.source)) =>
          ret.result = PyNone
    /\ (/\ Ingested
        /\ \/ NeverSaved(call.cache_before, call.source)
           \/ Unreadable(call.cache_before, call.source)) =>
          /\ call.old = PyNone
          /\ EveryLeafAdded(call.result, call.doc)

\* C13's case: a document of two leaves ingested for a source whose cache
\* file does not load.
C13_Witness ==
    /\ Ingested /\ Unreadable(call.cache_before, call.source)
    /\ Len(call.result) = 2

-----------------------------------------------------------------------------
(* Properties of the path codec *)

Parsed == pc = "done" /\ parsed # NotParsed

\* Segments the round-trip law speaks of: non-negative indices, and keys
\* holding none of the characters ".", "[" and "]".
PlainSegments(segs) ==
    \A i \in DOMAIN segs :
        \/ segs[i].t = "int" /\ segs[i].n >= 0
        \/ segs[i].t = "str" /\ \A j \in DOMAIN segs[i].s : segs[i].s[j] \notin {".", "[", "]"}

\* C14 (as claimed): for every sequence of non-negative indices and keys free
\* of ".", "[" and "]", parsing the rendered path gives the same segment
\* sequence back, hence render(parse(render(segments))) = render(segments).
C14_PathRoundTrip ==
    (Parsed /\ path_str = render(segments) /\ PlainSegments(segments)) =>
        /\ parsed = Parts(segments)
        /\ render(parsed.parts) = render(segments)

\* The bracket groups of a text, read from the left: each "[" is closed by
\* the next "]", and reading goes on after it; a "[" with no "]" after it is
\* the last group, left open.
RECURSIVE bracket_groups(_, _)
bracket_groups(text, i) ==
    IF i > Len(text) THEN <<>>
    ELSE IF text[i] # "[" THEN bracket_groups(text, i + 1)
    ELSE IF \A j \in i..Len(text) : text[j] # "]"
         THEN <<[closed |-> FALSE, text |-> <<>>]>>
         ELSE LET j == CHOOSE k \in i..Len(text) :
                           text[k] = "]" /\ \A m \in i..(k - 1) : text[m] # "]"
              IN  <<[closed |-> TRUE, text |-> SubSeq(text, i + 1, j - 1)]>>
                  \o bracket_groups(text, j + 1)

\* The text of a non-negative integer: decimal digits, at least one.
NonNegativeInteger(text) == text # <<>> /\ \A i \in DOMAIN text : IsDigit(text[i])

\* C15 (as claimed): parse fails exactly when a "[" has no matching "]" or the
\* text between "[" and "]" is not a valid non-negative integer (empty,
\* non-numeric or negative); the empty path parses to no segments.
C15_ParseFailsExactlyOnBadBrackets ==
    Parsed =>
        /\ parsed.status # "returned" <=>
              \E i \in DOMAIN bracket_groups(path_str, 1) :
                  LET group == bracket_groups(path_str, 1)[i]
                  IN  ~group.closed \/ ~NonNegativeInteger(group.text)
        /\ path_str = <<>> => parsed = Parts(<<>>)

-----------------------------------------------------------------------------
(* Properties of the changelog reads *)

\* The records of the file's lines that hold a JSON object, in file order.
ValidRecords(file) ==
    LET valid == {i \in DOMAIN file.lines : file.lines[i].kind = "json"}
        nth(k) == CHOOSE i \in valid : Cardinality({j \in valid : j < i}) = k - 1
    IN  [k \in 1..Cardinality(valid) |-> parse_line(file.lines[nth(k)].json)]

HasCorruptLine(file) ==
    \E i \in DOMAIN file.lines : file.lines[i].kind \in {"garbage", "torn"}

\* C16 (as claimed): for a file with any mix of valid record lines and lines
\* that do not parse as JSON, read_all returns exactly the valid records in
\* file order; records appended after a corrupt line are still returned.
C16_CorruptLinesSkipped ==
    /\ logFile.exists => read_all(logFile) = ValidRecords(logFile)
    /\ ret.op = "read_all" /\ logFile.exists => ret.result = ValidRecords(logFile)
    /\ (call.op = "append" /\ HasCorruptLine(call.file_before)) =>
          read_all(logFile) = read_all(call.file_before) \o call.records

\* The results of every read view, for the arguments of the model.
AllReadResults ==
    {read_all(logFile)}
    \cup {read_recent(logFile, limit) : limit \in Limits}
    \cup {read_by_source(logFile, source) : source \in Sources}
    \cup {read_by_path(logFile, prefix) : prefix \in Prefixes}
    \cup {read_by_date_range(logFile, range[1], range[2]) : range \in DateRanges}
    \cup {read_by_type(logFile, change_type) : change_type \in ChangeTypes}

\* C17: when the changelog file does not exist, read_all, read_recent,
\* read_by_source, read_by_path, read_by_date_range and read_by_type return
\* the empty list; an append then recreates the file, and read_all returns
\* the appended records.
C17_AbsentFileReadsEmpty ==
    /\ ~logFile.exists =>
          /\ AllReadResults = {<<>>}
          /\ ret # NoCall => ret.result = <<>>
    /\ (call.op = "append" /\ ~call.file_before.exists) =>
          /\ logFile.exists
          /\ read_all(logFile) = call.records
          /\ ret.op = "read_all" => ret.result = call.records

\* C17's case: the file was removed, records were appended, and read_all
\* returned them.
C17_Witness ==
    /\ call.op = "append" /\ ~call.file_before.exists /\ call.records # <<>>
    /\ ret.op = "read_all" /\ ret.result = call.records

\* How often a record occurs in a list.
Count(records, r) == Cardinality({i \in DOMAIN records : records[i] = r})
Records(list)     == {list[i] : i \in DOMAIN list}

\* The list is in descending order of timestamp string.
NewestFirst(records) ==
    \A i, j \in DOMAIN records :
        i < j => StrLessEq(records[j].timestamp.s, records[i].timestamp.s)

\* C18: read_by_source(s) returns exactly the records of read_all() whose
\* source equals s, and read_by_type(t) exactly those whose type equals t,
\* each as often as read_all() holds it, in descending order of timestamp
\* string.
C18_ExactMatchViews ==
    /\ ret.op = "read_by_source" =>
          /\ \A r \in Records(read_all(logFile)) \cup Records(ret.result) :
                Count(ret.result, r) =
                    IF r.source = PyStr(ret.args[1]) THEN Count(read_all(logFile), r) ELSE 0
          /\ NewestFirst(ret.result)
    /\ ret.op = "read_by_type" =>
          /\ \A r \in Records(read_all(logFile)) \cup Records(ret.result) :
                Count(ret.result, r) =
                    IF r.type = PyStr(ret.args[1]) THEN Count(read_all(logFile), r) ELSE 0
          /\ NewestFirst(ret.result)

\* C18's case: read_by_type returned some of the records of the log, and not
\* in the order the log holds them.
C18_Witness ==
    /\ ret.op = "read_by_type"
    /\ Len(ret.result) >= 2 /\ Len(ret.result) < Len(read_all(logFile))
    /\ \E i, j \in DOMAIN read_all(logFile) :
          /\ i < j
          /\ read_all(logFile)[j] = ret.result[1]
          /\ read_all(logFile)[i] = ret.result[2]

\* The path of the record begins with the prefix.
PathBeginsWith(r, prefix) ==
    /\ Len(prefix) <= Len(r.path.s)
    /\ \A i \in DOMAIN prefix : r.path.s[i] = prefix[i]

\* C19: read_by_path(prefix) returns exactly the records of read_all() whose
\* path starts with prefix: the filter "a" returns the records at "a", "a.b"
\* and "ab", and the empty prefix returns every record.
C19_PathPrefixView ==
    ret.op = "read_by_path" =>
        /\ \A r \in Records(read_all(logFile)) \cup Records(ret.result) :
              Count(ret.result, r) =
                  IF PathBeginsWith(r, ret.args[1]) THEN Count(read_all(logFile), r) ELSE 0
        /\ ret.args[1] = <<>> => Len(ret.result) = Len(read_all(logFile))

\* C19's case: the filter "a" on a log with records at a, a.b, ab and b
\* returned those at a, a.b and ab.
C19_Witness ==
    /\ ret.op = "read_by_path" /\ ret.args[1] = kA
    /\ \E r \in Records(read_all(logFile)) : r.path = PyStr(kB)
    /\ {r.path.s : r \in Records(ret.result)} = {kA, <<"a", ".", "b">>, kAB}

Min(a, b) == IF a < b THEN a ELSE b

\* C20 (as claimed): read_recent(limit) returns at most limit records for
\* every integer limit, none when limit is 0 or negative; for a log of n
\* records and limit >= 0 it returns min(limit, n) records, those with the
\* greatest timestamp strings, newest first.
C20_RecentAtMostLimit ==
    ret.op = "read_recent" =>
        LET limit == ret.args[1]
            all_changes == read_all(logFile)
        IN  /\ limit <= 0 => ret.result = <<>>
            /\ limit >= 0 =>
                  /\ Len(ret.result) = Min(limit, Len(all_changes))
                  /\ NewestFirst(ret.result)
                  /\ \A r \in Records(all_changes) : Count(ret.result, r) <= Count(all_changes, r)
                  /\ \A r \in Records(ret.result) :
                        \A q \in Records(all_changes) :
                            Count(ret.result, q) < Count(all_changes, q) =>
                                StrLessEq(q.timestamp.s, r.timestamp.s)

-----------------------------------------------------------------------------
(* Properties of timestamps *)

\* The instants at which the records of the model's logs were written.
Instants ==
    {Tick(0), Tick(1), Tick(2), Tick(3), DateTime(2024, 1, 1, 0, 0, 7, 0, <<>>)}

\* Whole seconds since midnight of the wall-clock time of a datetime of
\* 2024-01-01.
SecondsOf(dt) == (dt.hour * 60 + dt.minute) * 60 + dt.second

\* Instant a is earlier than instant b, both UTC (or naive, taken as UTC).
Before(a, b) ==
    \/ SecondsOf(a) < SecondsOf(b)
    \/ SecondsOf(a) = SecondsOf(b) /\ a.microsecond < b.microsecond

\* The instant a record of the log was written at.
InstantOf(r) == CHOOSE t \in Instants : timestamp_str(t) = r.timestamp.s

SortedViews ==
    {"read_recent", "read_by_source", "read_by_path", "read_by_type",
     "read_by_date_range"}

\* C21 (as claimed): in the result of a sorted read view, a record written at
\* a later instant is never listed after a record written at an earlier one,
\* whether or not the instants have a sub-second part.
C21_NewestFirstChronological ==
    ret.op \in SortedViews =>
        \A i, j \in DOMAIN ret.result :
            i < j => ~Before(InstantOf(ret.result[i]), InstantOf(ret.result[j]))

\* The instant lies between the bounds, both inclusive; <<>> is no bound.
InRange(t, start, end) ==
    /\ start # <<>> => ~Before(t, start[1])
    /\ end # <<>> => ~Before(end[1], t)

\* C22 (as claimed): read_by_date_range(start, end) returns exactly the
\* records of read_all() written at an instant between start and end, both
\* inclusive, an omitted bound being no bound; without bounds it returns
\* every record.
C22_DateRangeExact ==
    ret.op = "read_by_date_range" =>
        /\ \A r \in Records(read_all(logFile)) \cup Records(ret.result) :
              Count(ret.result, r) =
                  IF InRange(InstantOf(r), ret.args[1], ret.args[2])
                  THEN Count(read_all(logFile), r) ELSE 0
        /\ (ret.args[1] = <<>> /\ ret.args[2] = <<>>) =>
              Len(ret.result) = Len(read_all(logFile))

\* The instant the call stamps its records with: the timestamp argument, or
\* the clock when none was given.
Stamp == IF timestamp = <<>> THEN now ELSE timestamp[1]

\* Whole seconds since midnight UTC of an instant of 2024-01-01: the
\* wall-clock time less the UTC offset; a naive datetime is taken as UTC.
UtcSecondsOf(dt) ==
    SecondsOf(dt) - (IF dt.tz = <<>> THEN 0 ELSE dt.tz[1] * 60)

\* The text has the form YYYY-MM-DDTHH:MM:SS or YYYY-MM-DDTHH:MM:SS.ffffff,
\* followed by Z.
IsIsoZ(text) ==
    /\ Len(text) \in {20, 27}
    /\ text[Len(text)] = "Z"
    /\ text[5] = "-" /\ text[8] = "-" /\ text[11] = "T"
    /\ text[14] = ":" /\ text[17] = ":"
    /\ Len(text) = 27 => text[20] = "."
    /\ \A i \in (1..(Len(text) - 1)) \ {5, 8, 11, 14, 17, 20} : IsDigit(text[i])

\* The time of day such a text denotes: whole seconds since midnight, and
\* the microseconds of the fraction.
SecondsOfText(text) ==
    (StrToInt(SubSeq(text, 12, 13)) * 60 + StrToInt(SubSeq(text, 15, 16))) * 60
    + StrToInt(SubSeq(text, 18, 19))
MicrosecondOfText(text) ==
    IF Len(text) = 27 THEN StrToInt(SubSeq(text, 21, 26)) ELSE 0

\* C23 (as claimed): the timestamp of every record compute_diff produces is
\* an ISO-8601 text ending in Z with no offset, and it denotes the supplied
\* (or current) instant in UTC, also when the timestamp given is
\* timezone-aware with an offset other than zero.
C23_TimestampIsUtc ==
    Done =>
        \A i \in DOMAIN changes :
            LET text == changes[i].timestamp.s
            IN  /\ IsIsoZ(text)
                /\ SubSeq(text, 1, 10) = <<"2", "0", "2", "4", "-", "0", "1", "-", "0", "1">>
                /\ SecondsOfText(text) = UtcSecondsOf(Stamp)
                /\ MicrosecondOfText(text) = Stamp.microsecond

-----------------------------------------------------------------------------
(* Properties of flatten_to_nodes and get_node_value *)

\* Every key of every mapping in d has none of the characters . [ ]
RECURSIVE KeysFreeOfMarks(_)
KeysFreeOfMarks(d) ==
    \A i \in DOMAIN d.c :
        /\ d.t = "dict" => \A j \in DOMAIN d.c[i].k : d.c[i].k[j] \notin {".", "[", "]"}
        /\ KeysFreeOfMarks(d.c[i].e)

NonEmptyContainer(v) == IsContainer(v) /\ v.c # <<>>

\* The segment that leads from a container to its i-th entry.
SegmentTo(d, i) == IF d.t = "dict" THEN Key(d.c[i].k) ELSE Index(i - 1)

\* The segment sequences that lead from d to its leaves: scalars and empty
\* containers.
RECURSIVE LeafSegmentsFrom(_)
LeafSegmentsFrom(d) ==
    IF NonEmptyContainer(d)
    THEN UNION {{<<SegmentTo(d, i)>> \o rest : rest \in LeafSegmentsFrom(d.c[i].e)} :
                i \in DOMAIN d.c}
    ELSE {<<>>}

\* The leaves of a document: a root that is a scalar or empty has none.
LeafSegments(d) == IF NonEmptyContainer(d) THEN LeafSegmentsFrom(d) ELSE {}

\* The node of d the segments lead to.
RECURSIVE NodeAt(_, _)
NodeAt(d, segs) ==
    IF segs = <<>> THEN d
    ELSE LET i == CHOOSE i \in DOMAIN d.c : SegmentTo(d, i) = Head(segs)
         IN  NodeAt(d.c[i].e, Tail(segs))

\* flatten(d) has exactly one path per leaf of d, with the leaf as its value.
OneEntryPerLeaf(d) ==
    LET flat   == flatten_to_nodes(d, <<>>)
        leaves == LeafSegments(d)
    IN  /\ DOMAIN flat = {render(segs) : segs \in leaves}
        /\ Cardinality(DOMAIN flat) = Cardinality(leaves)
        /\ \A segs \in leaves : flat[render(segs)] = NodeAt(d, segs)
        /\ \A p \in DOMAIN flat : ~NonEmptyContainer(flat[p])
        /\ ~NonEmptyContainer(d) => DOMAIN flat = {}

\* C24 (as claimed): for every document whose keys are free of ".", "[" and
\* "]", flatten returns exactly one path per leaf, distinct leaves get distinct
\* paths, every value is a scalar or an empty container, and an empty or
\* scalar root gives the empty mapping.
C24_OneEntryPerLeaf ==
    Done =>
        /\ KeysFreeOfMarks(old_data) => OneEntryPerLeaf(old_data)
        /\ KeysFreeOfMarks(new_data) => OneEntryPerLeaf(new_data)

\* Two flat snapshots are equal as mappings: the same paths, and at every
\* path the same value of the same type.
SameSnapshot(f, g) ==
    /\ DOMAIN f = DOMAIN g
    /\ \A p \in DOMAIN f : f[p] = g[p]

\* C25 (as claimed): compute_diff(a, b, src) is the empty list if and only if
\* flatten(a) and flatten(b) are equal as mappings, values compared with
\* their types: 1, 1.0 and True differ from one another, and [] from {}.
C25_EmptyIffSameSnapshot ==
    Done =>
        ((changes = <<>>) <=>
            SameSnapshot(flatten_to_nodes(old_data, <<>>), flatten_to_nodes(new_data, <<>>)))

\* The segments lead to a node of d: every key is a key of the mapping it is
\* applied to, every index is within the sequence it is applied to.
RECURSIVE Addresses(_, _)
Addresses(d, segs) ==
    \/ segs = <<>>
    \/ /\ IsContainer(d)
       /\ \E i \in DOMAIN d.c :
             /\ SegmentTo(d, i) = Head(segs)
             /\ Addresses(d.c[i].e, Tail(segs))

Looked == pc = "done" /\ ret.op = "get_node_value"

\* C26 (as claimed): get_node_value(d, p) returns (True, flatten(d)[p]) for
\* every path p of flatten(d), (True, d) for the empty path, and
\* (False, None) for a path rendered from keys and indices that lead to no
\* node of d.
C26_LookupAgreesWithFlatten ==
    Looked =>
        LET d    == ret.args[1]
            p    == ret.args[2]
            flat == flatten_to_nodes(d, <<>>)
        IN  /\ p \in DOMAIN flat => ret.result = Found(flat[p])
            /\ p = <<>> => ret.result = Found(d)
            /\ (segments # <<>> /\ ~Addresses(d, segments)) => ret.result = NotFound

-----------------------------------------------------------------------------
(* Properties of the proposal writer *)

\* The keys of the items of the four lists of a summary file.
KeysOf(file) ==
    [learnings      |-> insights_of(list_of(file.learnings)),
     decisions      |-> decisions_of(list_of(file.decisions)),
     open_questions |-> list_of(file.open_questions),
     links          |-> ids_of(list_of(file.links))]

ListNames == {"learnings", "decisions", "open_questions", "links"}

PairwiseDistinct(keys) == \A i, j \in DOMAIN keys : i # j => keys[i] # keys[j]

Applied == call.op = "apply_update" /\ summary.kind = "document"

\* C27 (as claimed): apply_update never appends an item whose key is already
\* in the target list, also when the key occurs twice in one proposal, so
\* lists with pairwise distinct keys stay so; and a successful apply_update
\* of the same proposal again reports success with no changes and does not
\* write the file.
C27_NoDuplicateAppended ==
    /\ Applied =>
          \A name \in ListNames :
              LET before == KeysOf(call.before)[name]
                  after  == KeysOf(summary)[name]
              IN  /\ Len(before) <= Len(after)
                  /\ SubSeq(after, 1, Len(before)) = before
                  /\ \A j \in (Len(before) + 1)..Len(after) :
                        \A i \in 1..(j - 1) : after[i] # after[j]
                  /\ PairwiseDistinct(before) => PairwiseDistinct(after)
    /\ (call.op = "apply_update" /\ call.again) =>
          /\ call.result = Success(<<>>)
          /\ ~call.wrote
          /\ summary = call.before

-----------------------------------------------------------------------------
(* Properties of ingestion over several versions *)

\* The records of the changelog for one source, in append order.
SourceRecords(source) ==
    LET all_changes == read_all(logFile)
    IN  filtered(all_changes, {i \in DOMAIN all_changes : all_changes[i].source = PyStr(source)})

Without(f, key) == [x \in DOMAIN f \ {key} |-> f[x]]

\* A snapshot after the records were applied to it in order, and whether
\* every record found its precondition: added, the path absent; modified and
\* removed, the path present with the value old.
RECURSIVE Replay(_, _)
Replay(records, state) ==
    IF records = <<>> THEN state
    ELSE LET r == Head(records)
             p == r.path.s
             present == p \in DOMAIN state.snap
         IN  Replay(Tail(records),
                CASE r.type = ADDED ->
                        [snap |-> Put(state.snap, p, r.value),
                         ok   |-> state.ok /\ ~present]
                  [] r.type = MODIFIED ->
                        [snap |-> Put(state.snap, p, r.new),
                         ok   |-> state.ok /\ present /\ state.snap[p] = r.old]
                  [] r.type = REMOVED ->
                        [snap |-> Without(state.snap, p),
                         ok   |-> state.ok /\ present /\ state.snap[p] = r.old])

EmptySnapshot == [snap |-> <<>>, ok |-> TRUE]

\* The last document passed to diff_and_log for the source.
LastDoc(source) == saves[Latest(SavesOf(source))].doc

\* C28 (as claimed): after any sequence of diff_and_log calls whose saves all
\* succeeded, replaying a source's changelog records in append order from
\* the empty snapshot meets every record's precondition and yields
\* flatten of the last document passed in for the source.
C28_ReplayGivesLastDocument ==
    AllSavesOk =>
        \A source \in VersionSources :
            SavesOf(source) # {} =>
                LET replayed == Replay(SourceRecords(source), EmptySnapshot)
                IN  /\ replayed.ok
                    /\ replayed.snap = flatten_to_nodes(LastDoc(source), <<>>)

\* The call before was a diff_and_log of the same source and document whose
\* append failed.
RetriedAfterFailedAppend ==
    /\ Ingested /\ call.prev # <<>>
    /\ call.prev[1].source = call.source /\ call.prev[1].doc = call.doc
    /\ call.prev[1].raised

\* C29: in diff_and_log the append comes before the save.  When the append
\* fails the error reaches the caller and the cache is as it was before the
\* call; when the call changed the cache, the changes it computed were
\* written to the end of the log by an append that completed; and a retry
\* after a failed append computes the same changes again and returns them
\* when its own append completes.
C29_LogBeforeCache ==
    /\ Ingested =>
          /\ (call.append_called /\ call.appending # "ok") =>
                /\ call.raised
                /\ cacheDir = call.cache_before
                /\ get_previous(cacheDir, call.source) = call.old
          /\ cacheDir # call.cache_before =>
                /\ ~call.raised
                /\ call.computed # <<>> =>
                      /\ call.appending = "ok"
                      /\ logFile = append_file(call.file_before, call.computed)
                      /\ Len(appended) >= Len(call.computed)
                      /\ SubSeq(appended, Len(appended) - Len(call.computed) + 1, Len(appended))
                            = call.computed
    /\ RetriedAfterFailedAppend =>
          /\ call.computed # <<>>
          /\ Contents(call.computed) = Contents(call.prev[1].computed)
          /\ ~call.raised => call.result = call.computed

\* C29's case: an append failed part-way and left the cache as it was, the
\* call was made again, its append completed, and the cache now holds the
\* document.
C29_Witness ==
    /\ RetriedAfterFailedAppend
    /\ call.prev[1].cache_before = call.cache_before
    /\ logFile # call.file_before /\ call.file_before # EmptyLog
    /\ ~call.raised /\ call.result # <<>>
    /\ call.outcome = "ok"
    /\ call.doc = DocV2
    /\ get_previous(cacheDir, call.source) = call.doc

-----------------------------------------------------------------------------
(* Frame of the reads and of construction *)

ReadOps ==
    {"read_all", "read_recent", "read_by_source", "read_by_path",
     "read_by_date_range", "read_by_type", "get_previous", "get_node_value"}

\* C30: no read operation (read_all, read_recent, read_by_source,
\* read_by_path, read_by_date_range, read_by_type, get_previous,
\* get_node_value) changes the changelog file or the version cache; building
\* a Changelog creates an empty file when there is none and leaves an
\* existing file as it is, so read_all returns after a restart the records
\* appended before it.
C30_ReadsAndConstructionFrame ==
    /\ [][(ret' # ret /\ ret'.op \in ReadOps) =>
             (logFile' = logFile /\ cacheDir' = cacheDir)]_vars
    /\ [](call.op = "construct" =>
             /\ logFile.exists
             /\ ~call.file_before.exists => logFile = EmptyLog
             /\ call.file_before.exists => logFile = call.file_before
             /\ read_all(logFile) = read_all(call.file_before)
             /\ cacheDir = call.cache_before
             /\ ret.op = "read_all" => ret.result = read_all(call.file_before))

\* C30's case: records were appended, the stores were built again, and
\* read_all returned the records.
C30_Witness ==
    /\ call.op = "construct"
    /\ appended # <<>>
    /\ ret.op = "read_all"
    /\ Len(ret.result) = Len(appended) /\ Len(ret.result) >= 2

=============================================================================
